---------------------------- MODULE Spec2Model ----------------------------
(***************************************************************************)
(* A model of the parinfer text transformation engine, src/src/parinfer.rs *)
(*                                                                         *)
(* The processing state (struct State) is the record-valued variable       *)
(* `result'.  Every function of the engine is an operator from a State     *)
(* record to a State record; a function returning Result<()> leaves the    *)
(* Err value it returns in the field `raised', and the `?' operator is the *)
(* operator Try.  The driver (process_text, process_line) is the state     *)
(* machine: one action per line start, per grapheme, per line end, for     *)
(* finalize_result, for the Restart arm and for public_result.             *)
(*                                                                         *)
(* A text is a sequence of graphemes, each a one-character string.         *)
(***************************************************************************)
EXTENDS Integers, Sequences, FiniteSets, TLC

\* ------------------------------------------------------------------------
\* Constants / Predicates

BACKSLASH == "\\"
BLANK_SPACE == " "
DOUBLE_SPACE == "  "
DOUBLE_QUOTE == "\""
VERTICAL_LINE == "|"
BANG == "!"
NUMBER_SIGN == "#"
NEWLINE == "\n"
TAB == "\t"
\* the grave accent (U+0060), written as an apostrophe: the TLA+ lexer accepts
\* no grave accent inside a string
GRAVE == "'"
CARRIAGE_RETURN == "\r"
EMPTY == ""

\* usize::MAX, read as the two's complement integer it is: adding one to it
\* (init_line's wrapping_add) gives 0.  The code tests it for equality only.
NO_COLUMN == -1
NO_LINE_NUMBER == -1
\* Option::None of an Option<Column> or Option<LineNumber>
None == NO_COLUMN

column_to_option(column) == IF column = NO_COLUMN THEN None ELSE column
column_from_option(column) == IF column = None THEN NO_COLUMN ELSE column
line_number_to_option(line_number) ==
    IF line_number = NO_LINE_NUMBER THEN None ELSE line_number
line_number_from_option(line_number) ==
    IF line_number = None THEN NO_LINE_NUMBER ELSE line_number

\* match_paren: the partner of a bracket, None (here EMPTY) for anything else
match_paren(paren) ==
    CASE paren = "{" -> "}"
      [] paren = "}" -> "{"
      [] paren = "[" -> "]"
      [] paren = "]" -> "["
      [] paren = "(" -> ")"
      [] paren = ")" -> "("
      [] OTHER -> EMPTY

\* extern "C" is_close_paren, called through rust_is_close_paren
rust_is_close_paren(paren) == paren \in {")", "]", "}"}

\* A grapheme of display width 2 (stands for an East-Asian wide grapheme
\* such as U+FF57).
WIDE == "W"

\* UnicodeWidthStr::width of the strings the engine measures: a grapheme, the
\* empty string, DOUBLE_SPACE.
Width(s) ==
    CASE s = EMPTY -> 0
      [] s = NEWLINE -> 0
      [] s = DOUBLE_SPACE -> 2
      [] s = WIDE -> 2
      [] OTHER -> 1

\* The graphemes of a replacement string.
Graphemes(s) ==
    CASE s = EMPTY -> << >>
      [] s = DOUBLE_SPACE -> <<BLANK_SPACE, BLANK_SPACE>>
      [] OTHER -> <<s>>

\* ------------------------------------------------------------------------
\* Sequence helpers

RECURSIVE SumWidth(_)
SumWidth(s) == IF s = << >> THEN 0 ELSE Width(Head(s)) + SumWidth(Tail(s))

\* the display column at which grapheme i of line s starts (the scan closure)
StartColumn(s, i) == SumWidth(SubSeq(s, 1, i - 1))

\* text.split('\n'): always at least one piece
RECURSIVE Split(_, _)
Split(text, cur) ==
    IF text = << >> THEN <<cur>>
    ELSE IF Head(text) = NEWLINE THEN <<cur>> \o Split(Tail(text), << >>)
    ELSE Split(Tail(text), Append(cur, Head(text)))

chomp_cr(text) ==
    IF Len(text) > 0 /\ text[Len(text)] = CARRIAGE_RETURN
    THEN SubSeq(text, 1, Len(text) - 1)
    ELSE text

split_lines(text) ==
    LET pieces == Split(text, << >>)
    IN [i \in 1..Len(pieces) |-> chomp_cr(pieces[i])]

get_line_ending(text) ==
    IF \E i \in 1..Len(text) : text[i] = CARRIAGE_RETURN
    THEN <<CARRIAGE_RETURN, NEWLINE>>
    ELSE <<NEWLINE>>

\* lines.join(line_ending)
RECURSIVE Join(_, _)
Join(lines, sep) ==
    IF lines = << >> THEN << >>
    ELSE IF Len(lines) = 1 THEN lines[1]
    ELSE lines[1] \o sep \o Join(Tail(lines), sep)

\* ------------------------------------------------------------------------
\* String Operations

\* column_byte_index, as the number of graphemes left of the answer: the
\* first grapheme that starts at display column x, the whole length if none
column_byte_index(s, x) ==
    LET hits == {i \in 1..Len(s) : StartColumn(s, i) = x}
    IN IF hits = {} THEN Len(s)
       ELSE (CHOOSE i \in hits : \A j \in hits : i <= j) - 1

replace_within_string(orig, start, end, replace) ==
    LET start_i == column_byte_index(orig, start)
        end_i == column_byte_index(orig, end)
    IN SubSeq(orig, 1, start_i) \o replace \o SubSeq(orig, end_i + 1, Len(orig))

repeat_string(text, n) == [i \in 1..n |-> text]

\* ------------------------------------------------------------------------
\* Misc Utils

\* clamp with the upper bound tried first
clamp_max_first(val, min_n, max_n) ==
    IF max_n # None /\ max_n <= val THEN max_n
    ELSE IF min_n # None /\ min_n >= val THEN min_n
    ELSE val

clamp(val, min_n, max_n) ==
    IF min_n # None /\ min_n >= val THEN min_n
    ELSE IF max_n # None /\ max_n <= val THEN max_n
    ELSE val

\* peek(array, i): the i-th element from the end; callers test HasPeek first
HasPeek(array, i) == i < Len(array)
peek(array, i) == array[Len(array) - i]

\* ------------------------------------------------------------------------
\* Options Structure

\* transform_change: a Change is [x, line_no, old_text, new_text], the texts
\* sequences of graphemes
transform_change(change) ==
    LET new_lines == split_lines(change.new_text)
        old_lines == split_lines(change.old_text)
        last_old_line_len == SumWidth(old_lines[Len(old_lines)])
        last_new_line_len == SumWidth(new_lines[Len(new_lines)])
        old_end_x == (IF Len(old_lines) = 1 THEN change.x ELSE 0) + last_old_line_len
        new_end_x == (IF Len(new_lines) = 1 THEN change.x ELSE 0) + last_new_line_len
        new_end_line_no == change.line_no + (Len(new_lines) - 1)
    IN [old_end_x |-> old_end_x, new_end_x |-> new_end_x,
        lookup_line_no |-> new_end_line_no, lookup_x |-> new_end_x]

\* transform_changes: the HashMap keyed by (lookup_line_no, lookup_x), kept as
\* the list of its insertions; a later insertion replaces an earlier one with
\* the same key (see changes_get)
transform_changes(changes) ==
    [i \in 1..Len(changes) |-> transform_change(changes[i])]

changes_is_empty(map) == Len(map) = 0
changes_contains(map, line_no, x) ==
    \E i \in 1..Len(map) : map[i].lookup_line_no = line_no /\ map[i].lookup_x = x
changes_get(map, line_no, x) ==
    LET hits == {i \in 1..Len(map) :
                    map[i].lookup_line_no = line_no /\ map[i].lookup_x = x}
    IN map[CHOOSE i \in hits : \A j \in hits : j <= i]

\* ------------------------------------------------------------------------
\* State Structure

\* enum Mode
Indent == "Indent"
Paren == "Paren"

\* enum TrackingArgTabStop
NotSearching == "NotSearching"
Space == "Space"
Arg == "Arg"

\* enum Now
Normal == "Normal"
Escaping == "Escaping"
Escaped == "Escaped"

\* enum In: one record shape for every variant; delim is the String
\* delimiter, depth the block comment depth, open_delim_len and
\* close_delim_len the long string's
In(tag, delim, depth, open_delim_len, close_delim_len) ==
    [tag |-> tag, delim |-> delim, depth |-> depth,
     open_delim_len |-> open_delim_len, close_delim_len |-> close_delim_len]
Code == In("Code", EMPTY, 0, 0, 0)
Comment == In("Comment", EMPTY, 0, 0, 0)
String(delim) == In("String", delim, 0, 0, 0)
LispReaderSyntax == In("LispReaderSyntax", EMPTY, 0, 0, 0)
LispBlockCommentPre(depth) == In("LispBlockCommentPre", EMPTY, depth, 0, 0)
LispBlockComment(depth) == In("LispBlockComment", EMPTY, depth, 0, 0)
LispBlockCommentPost(depth) == In("LispBlockCommentPost", EMPTY, depth, 0, 0)
GuileBlockComment == In("GuileBlockComment", EMPTY, 0, 0, 0)
GuileBlockCommentPost == In("GuileBlockCommentPost", EMPTY, 0, 0, 0)
JanetLongStringPre(open_delim_len) ==
    In("JanetLongStringPre", EMPTY, 0, open_delim_len, 0)
JanetLongString(open_delim_len, close_delim_len) ==
    In("JanetLongString", EMPTY, 0, open_delim_len, close_delim_len)

is_escaping(r) == r.escape = Escaping
is_escaped(r) == r.escape = Escaped

is_in_code(r) == r.context.tag \in {"Code", "LispReaderSyntax"}
is_in_comment(r) == r.context.tag = "Comment"
\* is_in_stringish that knows strings only
is_in_stringish_strings_only(r) == r.context.tag = "String"

is_in_stringish(r) ==
    r.context.tag \in {"String", "LispBlockCommentPre", "LispBlockComment",
                       "LispBlockCommentPost", "GuileBlockComment",
                       "GuileBlockCommentPost", "JanetLongStringPre",
                       "JanetLongString"}

\* enum ErrorName, the names this file raises
ErrorNames == {"QuoteDanger", "EolBackslash", "UnclosedQuote", "UnclosedParen",
               "UnmatchedCloseParen", "UnmatchedOpenParen", "LeadingCloseParen",
               "Panic", "Restart"}

\* struct Error (the message is error_message(name)); NoError is Ok(()) and
\* Option::None of an Option<Error>
Error(name, line_no, x, input_line_no, input_x) ==
    [name |-> name, line_no |-> line_no, x |-> x,
     input_line_no |-> input_line_no, input_x |-> input_x]
NoError == Error("Ok", 0, 0, 0, 0)

\* A panic of the Rust runtime (an index out of bounds, an unwrap of None):
\* it unwinds through process_text like no Err value does.
Panic == Error("Panic", 0, 0, 0, 0)

initial_paren_trail ==
    [line_no |-> None, start_x |-> None, end_x |-> None, openers |-> << >>,
     clamped |-> [start_x |-> None, end_x |-> None, openers |-> << >>]]

\* extern "C" state_init(state, orig_text, orig_text_length): stores the
\* caller's text as orig_text
state_init(state, text) == [state EXCEPT !.orig_text = text]

\* get_initial_result.  options is the Options the caller passed.
get_initial_result(text, input_lines, options, mode, smart) ==
    LET lisp_reader_syntax_enabled ==
            \/ options.lisp_block_comments
            \/ options.guile_block_comments
            \/ options.scheme_sexp_comments
        state ==
          [mode |-> mode,
           smart |-> smart,
           orig_text |-> << >>,
           orig_cursor_x |-> column_from_option(options.cursor_x),
           orig_cursor_line |-> line_number_from_option(options.cursor_line),
           input_lines |-> input_lines,
           input_line_no |-> 0,
           input_x |-> 0,
           lines |-> << >>,
           line_no |-> NO_LINE_NUMBER,
           ch |-> EMPTY,
           x |-> 0,
           indent_x |-> NO_COLUMN,
           paren_stack |-> << >>,
           tab_stops |-> << >>,
           paren_trail |-> initial_paren_trail,
           paren_trails |-> << >>,
           return_parens |-> FALSE,
           cursor_x |-> column_from_option(options.cursor_x),
           cursor_line |-> line_number_from_option(options.cursor_line),
           prev_cursor_x |-> column_from_option(options.prev_cursor_x),
           prev_cursor_line |-> line_number_from_option(options.prev_cursor_line),
           selection_start_line |-> NO_LINE_NUMBER,
           changes |-> transform_changes(options.changes),
           context |-> Code,
           comment_x |-> NO_COLUMN,
           escape |-> Normal,
           lisp_vline_symbols_enabled |-> options.lisp_vline_symbols,
           lisp_reader_syntax_enabled |-> lisp_reader_syntax_enabled,
           lisp_block_comments_enabled |-> options.lisp_block_comments,
           guile_block_comments_enabled |-> options.guile_block_comments,
           scheme_sexp_comments_enabled |-> options.scheme_sexp_comments,
           janet_long_strings_enabled |-> options.janet_long_strings,
           quote_danger |-> FALSE,
           tracking_indent |-> FALSE,
           skip_char |-> FALSE,
           success |-> FALSE,
           partial_result |-> FALSE,
           force_balance |-> FALSE,
           comment_char |-> options.comment_char,
           max_indent |-> None,
           indent_delta |-> 0,
           tracking_arg_tab_stop |-> NotSearching,
           error |-> NoError,
           error_pos_cache |-> [n \in ErrorNames |-> NoError],
           \* the Result<()> a function returns: Ok(()) or the Err on its way
           \* up to process_text
           raised |-> NoError]
    IN state_init(state, text)

\* ------------------------------------------------------------------------
\* Possible Errors

\* the `?' operator: F runs only while nothing was raised
Try(r, F(_)) == IF r.raised # NoError THEN r ELSE F(r)
\* let v = ...; the statements K that follow it
Bind(v, K(_)) == K(v)
\* return Err(e); what is already on its way up stays
Raise(r, e) == IF r.raised # NoError THEN r ELSE [r EXCEPT !.raised = e]

cache_contains(r, name) == r.error_pos_cache[name] # NoError

cache_error_pos(r, name) ==
    [r EXCEPT !.error_pos_cache[name] =
        Error(name, r.line_no, r.x, r.input_line_no, r.input_x)]

\* error that reports UnclosedParen at the outermost opener
error_outermost(r, name) ==
    LET cached == cache_contains(r, name)
        cache == r.error_pos_cache[name]
        line_no == CASE r.partial_result /\ cached -> cache.line_no
                     [] ~r.partial_result /\ cached -> cache.input_line_no
                     [] r.partial_result /\ ~cached -> r.line_no
                     [] OTHER -> r.input_line_no
        x == CASE r.partial_result /\ cached -> cache.x
               [] ~r.partial_result /\ cached -> cache.input_x
               [] r.partial_result /\ ~cached -> r.x
               [] OTHER -> r.input_x
        e == Error(name, line_no, x, r.input_line_no, r.input_x)
    IN IF name = "UnclosedParen" /\ HasPeek(r.paren_stack, 0)
       THEN LET opener == r.paren_stack[1]
            IN [e EXCEPT !.line_no = IF r.partial_result THEN opener.line_no
                                     ELSE opener.input_line_no,
                         !.x = IF r.partial_result THEN opener.x
                               ELSE opener.input_x]
       ELSE e

\* error(result, name): the Error it returns as Err(e)
error(r, name) ==
    LET cached == cache_contains(r, name)
        cache == r.error_pos_cache[name]
        line_no == CASE r.partial_result /\ cached -> cache.line_no
                     [] ~r.partial_result /\ cached -> cache.input_line_no
                     [] r.partial_result /\ ~cached -> r.line_no
                     [] OTHER -> r.input_line_no
        x == CASE r.partial_result /\ cached -> cache.x
               [] ~r.partial_result /\ cached -> cache.input_x
               [] r.partial_result /\ ~cached -> r.x
               [] OTHER -> r.input_x
        e == Error(name, line_no, x, r.input_line_no, r.input_x)
    IN IF name = "UnclosedParen" /\ HasPeek(r.paren_stack, 0)
       THEN LET opener == peek(r.paren_stack, 0)
            IN [e EXCEPT !.line_no = IF r.partial_result THEN opener.line_no
                                     ELSE opener.input_line_no,
                         !.x = IF r.partial_result THEN opener.x
                               ELSE opener.input_x]
       ELSE e

\* ------------------------------------------------------------------------
\* Line operations

is_cursor_affected(r, start, end) ==
    IF r.cursor_x = NO_COLUMN THEN FALSE
    ELSE IF r.cursor_x = start /\ r.cursor_x = end THEN r.cursor_x = 0
    ELSE r.cursor_x >= end

\* replace is the replacement's sequence of graphemes
shift_cursor_on_edit(r, line_no, start, end, replace) ==
    LET old_length == end - start
        new_length == SumWidth(replace)
        dx == new_length - old_length
    IN IF /\ r.cursor_x # NO_COLUMN
          /\ r.cursor_line # NO_LINE_NUMBER
          /\ dx # 0
          /\ r.cursor_line = line_no
          /\ is_cursor_affected(r, start, end)
       THEN [r EXCEPT !.cursor_x = r.cursor_x + dx]
       ELSE r

\* result.lines[line_no] panics when the line does not exist
replace_within_line(r, line_no, start, end, replace) ==
    IF line_no < 0 \/ line_no >= Len(r.lines)
    THEN Raise(r, Panic)
    ELSE LET line == r.lines[line_no + 1]
             new_line == replace_within_string(line, start, end, replace)
         IN shift_cursor_on_edit([r EXCEPT !.lines[line_no + 1] = new_line],
                                 line_no, start, end, replace)

insert_within_line(r, line_no, idx, insert) ==
    replace_within_line(r, line_no, idx, idx, insert)

init_line(r) ==
    [r EXCEPT !.x = 0,
              !.line_no = r.line_no + 1,
              !.indent_x = NO_COLUMN,
              !.comment_x = NO_COLUMN,
              !.indent_delta = 0,
              !.error_pos_cache =
                  [n \in ErrorNames |->
                      IF n \in {"UnmatchedCloseParen", "UnmatchedOpenParen",
                                "LeadingCloseParen"}
                      THEN NoError ELSE r.error_pos_cache[n]],
              !.tracking_arg_tab_stop = NotSearching,
              !.tracking_indent = ~is_in_stringish(r)]

\* commit_char that replaces the grapheme and forgets to charge the width
\* difference to indent_delta
commit_char_keeping_indent_delta(r, orig_ch) ==
    LET ch_width == Width(r.ch)
        orig_ch_width == Width(orig_ch)
    IN Bind(IF orig_ch # r.ch
            THEN replace_within_line(r, r.line_no, r.x,
                                     r.x + orig_ch_width, Graphemes(r.ch))
            ELSE r,
            LAMBDA r1 : [r1 EXCEPT !.x = r1.x + ch_width])

commit_char(r, orig_ch) ==
    LET ch_width == Width(r.ch)
        orig_ch_width == Width(orig_ch)
    IN Bind(IF orig_ch # r.ch
            THEN Bind(replace_within_line(r, r.line_no, r.x,
                                          r.x + orig_ch_width, Graphemes(r.ch)),
                      LAMBDA e : [e EXCEPT !.indent_delta =
                                      e.indent_delta - (orig_ch_width - ch_width)])
            ELSE r,
            LAMBDA r1 : [r1 EXCEPT !.x = r1.x + ch_width])

\* ------------------------------------------------------------------------
\* Questions about characters

is_valid_close_paren(paren_stack, ch) ==
    IF paren_stack = << >> THEN FALSE
    ELSE match_paren(ch) # EMPTY /\ peek(paren_stack, 0).ch = match_paren(ch)

is_whitespace(r) == ~is_escaped(r) /\ (r.ch = BLANK_SPACE \/ r.ch = DOUBLE_SPACE)

is_closable_unescaped(r) ==
    /\ is_in_code(r) /\ ~is_whitespace(r) /\ r.ch # EMPTY
    /\ ~is_escaped(r) /\ ~rust_is_close_paren(r.ch)

is_closable(r) ==
    LET closer == rust_is_close_paren(r.ch) /\ ~is_escaped(r)
    IN is_in_code(r) /\ ~is_whitespace(r) /\ r.ch # EMPTY /\ ~closer

\* ------------------------------------------------------------------------
\* Advanced operations on characters

check_cursor_holding_left_of_opener(r) ==
    LET opener == peek(r.paren_stack, 0)
        hold_min_x == IF HasPeek(r.paren_stack, 1)
                      THEN peek(r.paren_stack, 1).x + 1 ELSE 0
        hold_max_x == opener.x
        holding == /\ r.cursor_line = opener.line_no
                   /\ r.cursor_x # NO_COLUMN
                   /\ hold_min_x <= r.cursor_x
                   /\ r.cursor_x < hold_max_x
        should_check_prev == /\ changes_is_empty(r.changes)
                             /\ r.prev_cursor_line # NO_LINE_NUMBER
        prev_holding == /\ r.prev_cursor_line = opener.line_no
                        /\ r.prev_cursor_x # NO_COLUMN
                        /\ hold_min_x <= r.prev_cursor_x
                        /\ r.prev_cursor_x <= hold_max_x
    IN IF should_check_prev /\ prev_holding /\ ~holding
       THEN [err |-> Error("Restart", 0, 0, 0, 0), holding |-> FALSE]
       ELSE [err |-> NoError, holding |-> holding]

check_cursor_holding_despite_changes(r) ==
    LET opener == peek(r.paren_stack, 0)
        hold_min_x == IF HasPeek(r.paren_stack, 1)
                      THEN peek(r.paren_stack, 1).x + 1 ELSE 0
        hold_max_x == opener.x
        holding == /\ r.cursor_line = opener.line_no
                   /\ r.cursor_x # NO_COLUMN
                   /\ hold_min_x <= r.cursor_x
                   /\ r.cursor_x <= hold_max_x
        should_check_prev == r.prev_cursor_line # NO_LINE_NUMBER
        prev_holding == /\ r.prev_cursor_line = opener.line_no
                        /\ r.prev_cursor_x # NO_COLUMN
                        /\ hold_min_x <= r.prev_cursor_x
                        /\ r.prev_cursor_x <= hold_max_x
    IN IF should_check_prev /\ prev_holding /\ ~holding
       THEN [err |-> Error("Restart", 0, 0, 0, 0), holding |-> FALSE]
       ELSE [err |-> NoError, holding |-> holding]

\* check_cursor_holding: Result<bool> as [err, holding]; err is the Restart
\* it returns, or NoError with holding the bool
check_cursor_holding(r) ==
    LET opener == peek(r.paren_stack, 0)
        hold_min_x == IF HasPeek(r.paren_stack, 1)
                      THEN peek(r.paren_stack, 1).x + 1 ELSE 0
        hold_max_x == opener.x
        holding == /\ r.cursor_line = opener.line_no
                   /\ r.cursor_x # NO_COLUMN
                   /\ hold_min_x <= r.cursor_x
                   /\ r.cursor_x <= hold_max_x
        should_check_prev == /\ changes_is_empty(r.changes)
                             /\ r.prev_cursor_line # NO_LINE_NUMBER
        prev_holding == /\ r.prev_cursor_line = opener.line_no
                        /\ r.prev_cursor_x # NO_COLUMN
                        /\ hold_min_x <= r.prev_cursor_x
                        /\ r.prev_cursor_x <= hold_max_x
    IN IF should_check_prev /\ prev_holding /\ ~holding
       THEN [err |-> Error("Restart", 0, 0, 0, 0), holding |-> FALSE]
       ELSE [err |-> NoError, holding |-> holding]

track_arg_tab_stop(r, state) ==
    IF state = Space
    THEN IF is_in_code(r) /\ is_whitespace(r)
         THEN [r EXCEPT !.tracking_arg_tab_stop = Arg]
         ELSE r
    ELSE IF state = Arg
    THEN IF ~is_whitespace(r)
         THEN IF r.paren_stack = << >> THEN Raise(r, Panic)
              ELSE [r EXCEPT !.paren_stack[Len(r.paren_stack)].arg_x = r.x,
                             !.tracking_arg_tab_stop = NotSearching]
         ELSE r
    ELSE r

\* ------------------------------------------------------------------------
\* Paren Trail functions (those the character events use)

reset_paren_trail(r, line_no, x) ==
    [r EXCEPT !.paren_trail =
        [line_no |-> line_no, start_x |-> x, end_x |-> x, openers |-> << >>,
         clamped |-> [start_x |-> None, end_x |-> None, openers |-> << >>]]]

\* ------------------------------------------------------------------------
\* Literal character events

\* struct Paren; closer and children exist only under return_parens, which
\* get_initial_result leaves false
in_code_on_open_paren(r) ==
    LET opener == [input_line_no |-> r.input_line_no,
                   input_x |-> r.input_x,
                   line_no |-> r.line_no,
                   x |-> r.x,
                   ch |-> r.ch,
                   indent_delta |-> r.indent_delta,
                   max_child_indent |-> None,
                   arg_x |-> None]
    IN [r EXCEPT !.paren_stack = Append(r.paren_stack, opener),
                 !.tracking_arg_tab_stop = Space]

\* the cursor holds the bracket: the paren trail restarts right of it and
\* keeps the old one as clamped
hold_paren_trail(r) ==
    [reset_paren_trail(r, r.line_no, r.x + 1) EXCEPT !.paren_trail.clamped =
        [start_x |-> r.paren_trail.start_x, end_x |-> r.paren_trail.end_x,
         openers |-> r.paren_trail.openers]]

\* in_code_on_matched_close_paren that consults check_cursor_holding in
\* either mode
in_code_on_matched_close_paren_any_mode(r) ==
    Bind([r EXCEPT !.paren_trail.end_x = r.x + 1,
                   !.paren_trail.openers =
                       Append(r.paren_trail.openers, peek(r.paren_stack, 0))],
         LAMBDA r1 :
    Bind(IF r1.smart
         THEN check_cursor_holding(r1)
         ELSE [err |-> NoError, holding |-> FALSE],
         LAMBDA hold :
    IF hold.err # NoError THEN Raise(r1, hold.err)
    ELSE Bind(IF hold.holding THEN hold_paren_trail(r1) ELSE r1,
              LAMBDA r2 :
              [r2 EXCEPT !.paren_stack =
                             SubSeq(r2.paren_stack, 1, Len(r2.paren_stack) - 1),
                         !.tracking_arg_tab_stop = NotSearching])))

in_code_on_matched_close_paren(r) ==
    Bind([r EXCEPT !.paren_trail.end_x = r.x + 1,
                   !.paren_trail.openers =
                       Append(r.paren_trail.openers, peek(r.paren_stack, 0))],
         LAMBDA r1 :
    Bind(IF r1.mode = Indent /\ r1.smart
         THEN check_cursor_holding(r1)
         ELSE [err |-> NoError, holding |-> FALSE],
         LAMBDA hold :
    IF hold.err # NoError THEN Raise(r1, hold.err)
    ELSE Bind(IF hold.holding THEN hold_paren_trail(r1) ELSE r1,
              LAMBDA r2 :
              [r2 EXCEPT !.paren_stack =
                             SubSeq(r2.paren_stack, 1, Len(r2.paren_stack) - 1),
                         !.tracking_arg_tab_stop = NotSearching])))

\* in_code_on_unmatched_close_paren that removes the bracket in Paren mode
\* whether smart or not
in_code_on_unmatched_close_paren_removing(r) ==
    Try(IF r.mode = Paren
        THEN r
        ELSE IF ~cache_contains(r, "UnmatchedCloseParen")
             THEN Bind(cache_error_pos(r, "UnmatchedCloseParen"), LAMBDA c1 :
                  IF HasPeek(c1.paren_stack, 0)
                  THEN Bind(cache_error_pos(c1, "UnmatchedOpenParen"), LAMBDA c2 :
                       [c2 EXCEPT
                          !.error_pos_cache["UnmatchedOpenParen"].input_line_no =
                              peek(c2.paren_stack, 0).input_line_no,
                          !.error_pos_cache["UnmatchedOpenParen"].input_x =
                              peek(c2.paren_stack, 0).input_x])
                  ELSE c1)
             ELSE r,
        LAMBDA q : [q EXCEPT !.ch = EMPTY])

in_code_on_unmatched_close_paren(r) ==
    LET in_leading_paren_trail ==
            /\ r.paren_trail.line_no = r.line_no
            /\ r.paren_trail.start_x = column_to_option(r.indent_x)
        can_remove == r.smart /\ in_leading_paren_trail
    IN Try(IF r.mode = Paren
           THEN IF ~can_remove
                THEN Raise(r, error(r, "UnmatchedCloseParen"))
                ELSE r
           ELSE IF ~cache_contains(r, "UnmatchedCloseParen")
                THEN Bind(cache_error_pos(r, "UnmatchedCloseParen"), LAMBDA c1 :
                     IF HasPeek(c1.paren_stack, 0)
                     THEN Bind(cache_error_pos(c1, "UnmatchedOpenParen"), LAMBDA c2 :
                          [c2 EXCEPT
                             !.error_pos_cache["UnmatchedOpenParen"].input_line_no =
                                 peek(c2.paren_stack, 0).input_line_no,
                             !.error_pos_cache["UnmatchedOpenParen"].input_x =
                                 peek(c2.paren_stack, 0).input_x])
                     ELSE c1)
                ELSE r,
           LAMBDA q : [q EXCEPT !.ch = EMPTY])

in_code_on_close_paren(r) ==
    IF is_valid_close_paren(r.paren_stack, r.ch)
    THEN in_code_on_matched_close_paren(r)
    ELSE in_code_on_unmatched_close_paren(r)

\* in_code_on_tab that writes one space
in_code_on_tab_one_space(r) == [r EXCEPT !.ch = BLANK_SPACE]

in_code_on_tab(r) == [r EXCEPT !.ch = DOUBLE_SPACE]

in_code_on_comment_char(r) ==
    [r EXCEPT !.context = Comment,
              !.comment_x = r.x,
              !.tracking_arg_tab_stop = NotSearching]

on_newline(r) ==
    [(IF is_in_comment(r) THEN [r EXCEPT !.context = Code] ELSE r)
        EXCEPT !.ch = EMPTY]

in_code_on_quote(r) ==
    cache_error_pos([r EXCEPT !.context = String(r.ch)], "UnclosedQuote")

\* in_comment_on_quote that sets quote_danger where it should flip it
in_comment_on_quote_sticky(r) ==
    Bind([r EXCEPT !.quote_danger = TRUE], LAMBDA r1 :
    IF r1.quote_danger THEN cache_error_pos(r1, "QuoteDanger") ELSE r1)

in_comment_on_quote(r) ==
    Bind([r EXCEPT !.quote_danger = ~r.quote_danger], LAMBDA r1 :
    IF r1.quote_danger THEN cache_error_pos(r1, "QuoteDanger") ELSE r1)

in_string_on_quote(r, delim) ==
    IF delim = r.ch THEN [r EXCEPT !.context = Code] ELSE r

in_code_on_nsign(r) == [r EXCEPT !.context = LispReaderSyntax]

in_lisp_reader_syntax_on_vline(r) == [r EXCEPT !.context = LispBlockComment(1)]
in_lisp_reader_syntax_on_bang(r) == [r EXCEPT !.context = GuileBlockComment]
in_lisp_reader_syntax_on_semicolon(r) == [r EXCEPT !.context = Code]

in_lisp_block_comment_pre_on_vline(r, depth) ==
    [r EXCEPT !.context = LispBlockComment(depth + 1)]
in_lisp_block_comment_pre_on_else(r, depth) ==
    [r EXCEPT !.context = LispBlockComment(depth)]
in_lisp_block_comment_on_nsign(r, depth) ==
    [r EXCEPT !.context = LispBlockCommentPre(depth)]
in_lisp_block_comment_on_vline(r, depth) ==
    [r EXCEPT !.context = LispBlockCommentPost(depth)]
in_lisp_block_comment_post_on_nsign(r, depth) ==
    IF depth - 1 > 0
    THEN [r EXCEPT !.context = LispBlockComment(depth - 1)]
    ELSE [r EXCEPT !.context = Code]
in_lisp_block_comment_post_on_else(r, depth) ==
    [r EXCEPT !.context = LispBlockComment(depth)]

in_guile_block_comment_on_bang(r) == [r EXCEPT !.context = GuileBlockCommentPost]
in_guile_block_comment_post_on_nsign(r) == [r EXCEPT !.context = Code]
in_guile_block_comment_post_on_else(r) == [r EXCEPT !.context = GuileBlockComment]

in_code_on_grave(r) ==
    cache_error_pos([r EXCEPT !.context = JanetLongStringPre(1)], "UnclosedQuote")
in_janet_long_string_pre_on_grave(r, open_delim_len) ==
    [r EXCEPT !.context = JanetLongStringPre(open_delim_len + 1)]
in_janet_long_string_pre_on_else(r, open_delim_len) ==
    [r EXCEPT !.context = JanetLongString(open_delim_len, 0)]
in_janet_long_string_on_grave(r, open_delim_len, close_delim_len) ==
    IF open_delim_len = close_delim_len + 1
    THEN [r EXCEPT !.context = Code]
    ELSE [r EXCEPT !.context = JanetLongString(open_delim_len, close_delim_len + 1)]
in_janet_long_string_on_else(r, open_delim_len, close_delim_len) ==
    IF close_delim_len > 0
    THEN [r EXCEPT !.context = JanetLongString(open_delim_len, 0)]
    ELSE r

on_backslash(r) == [r EXCEPT !.escape = Escaping]

\* after_backslash that takes a backslash before the newline for an error in
\* any context
after_backslash_any_context(r) ==
    Bind([r EXCEPT !.escape = Escaped], LAMBDA r1 :
    IF r1.ch = NEWLINE
    THEN Raise(r1, error(r1, "EolBackslash"))
    ELSE r1)

after_backslash(r) ==
    Bind([r EXCEPT !.escape = Escaped], LAMBDA r1 :
    IF r1.ch = NEWLINE /\ is_in_code(r1)
    THEN Raise(r1, error(r1, "EolBackslash"))
    ELSE r1)

\* ------------------------------------------------------------------------
\* Character dispatch

in_code_on_context(r) ==
    IF r.ch = r.comment_char THEN in_code_on_comment_char(r)
    ELSE CASE r.ch \in {"(", "[", "{"} -> in_code_on_open_paren(r)
           [] r.ch \in {")", "]", "}"} -> in_code_on_close_paren(r)
           [] r.ch = DOUBLE_QUOTE -> in_code_on_quote(r)
           [] r.ch = VERTICAL_LINE /\ r.lisp_vline_symbols_enabled -> in_code_on_quote(r)
           [] r.ch = NUMBER_SIGN /\ r.lisp_reader_syntax_enabled -> in_code_on_nsign(r)
           [] r.ch = GRAVE /\ r.janet_long_strings_enabled -> in_code_on_grave(r)
           [] r.ch = TAB -> in_code_on_tab(r)
           [] OTHER -> r

on_context(r) ==
    LET ch == r.ch
        tag == r.context.tag
        depth == r.context.depth
        open_delim_len == r.context.open_delim_len
        close_delim_len == r.context.close_delim_len
    IN CASE tag = "Code" -> in_code_on_context(r)
         [] tag = "Comment" ->
              IF \/ ch = DOUBLE_QUOTE
                 \/ ch = VERTICAL_LINE /\ r.lisp_vline_symbols_enabled
                 \/ ch = GRAVE /\ r.janet_long_strings_enabled
              THEN in_comment_on_quote(r)
              ELSE r
         [] tag = "String" ->
              IF \/ ch = DOUBLE_QUOTE
                 \/ ch = VERTICAL_LINE /\ r.lisp_vline_symbols_enabled
              THEN in_string_on_quote(r, r.context.delim)
              ELSE r
         [] tag = "LispReaderSyntax" ->
              CASE ch = VERTICAL_LINE /\ r.lisp_block_comments_enabled ->
                     in_lisp_reader_syntax_on_vline(r)
                [] ch = BANG /\ r.guile_block_comments_enabled ->
                     in_lisp_reader_syntax_on_bang(r)
                [] ch = ";" /\ r.scheme_sexp_comments_enabled ->
                     in_lisp_reader_syntax_on_semicolon(r)
                   \* Backtrack!
                [] OTHER -> in_code_on_context([r EXCEPT !.context = Code])
         [] tag = "LispBlockCommentPre" ->
              IF ch = VERTICAL_LINE
              THEN in_lisp_block_comment_pre_on_vline(r, depth)
              ELSE in_lisp_block_comment_pre_on_else(r, depth)
         [] tag = "LispBlockComment" ->
              CASE ch = NUMBER_SIGN -> in_lisp_block_comment_on_nsign(r, depth)
                [] ch = VERTICAL_LINE -> in_lisp_block_comment_on_vline(r, depth)
                [] OTHER -> r
         [] tag = "LispBlockCommentPost" ->
              IF ch = NUMBER_SIGN
              THEN in_lisp_block_comment_post_on_nsign(r, depth)
              ELSE in_lisp_block_comment_post_on_else(r, depth)
         [] tag = "GuileBlockComment" ->
              IF ch = BANG THEN in_guile_block_comment_on_bang(r) ELSE r
         [] tag = "GuileBlockCommentPost" ->
              IF ch = NUMBER_SIGN
              THEN in_guile_block_comment_post_on_nsign(r)
              ELSE in_guile_block_comment_post_on_else(r)
         [] tag = "JanetLongStringPre" ->
              IF ch = GRAVE
              THEN in_janet_long_string_pre_on_grave(r, open_delim_len)
              ELSE in_janet_long_string_pre_on_else(r, open_delim_len)
         [] OTHER ->
              IF ch = GRAVE
              THEN in_janet_long_string_on_grave(r, open_delim_len, close_delim_len)
              ELSE in_janet_long_string_on_else(r, open_delim_len, close_delim_len)

\* on_char that looks for a backslash before it looks at the escape
on_char_backslash_first(r) ==
    Bind(IF is_escaped(r) THEN [r EXCEPT !.escape = Normal] ELSE r, LAMBDA r1 :
    Try(Try(IF r1.ch = BACKSLASH THEN on_backslash(r1)
            ELSE IF is_escaping(r1) THEN after_backslash(r1)
            ELSE IF r1.ch = NEWLINE THEN on_newline(r1)
            ELSE on_context(r1),
            LAMBDA q : IF is_closable(q)
                       THEN reset_paren_trail(q, q.line_no, q.x + Width(q.ch))
                       ELSE q),
        LAMBDA q : IF q.tracking_arg_tab_stop # NotSearching
                   THEN track_arg_tab_stop(q, q.tracking_arg_tab_stop)
                   ELSE q))

on_char(r) ==
    Bind(IF is_escaped(r) THEN [r EXCEPT !.escape = Normal] ELSE r, LAMBDA r1 :
    Try(Try(IF is_escaping(r1) THEN after_backslash(r1)
            ELSE IF r1.ch = BACKSLASH THEN on_backslash(r1)
            ELSE IF r1.ch = NEWLINE THEN on_newline(r1)
            ELSE on_context(r1),
            LAMBDA q : IF is_closable(q)
                       THEN reset_paren_trail(q, q.line_no, q.x + Width(q.ch))
                       ELSE q),
        LAMBDA q : IF q.tracking_arg_tab_stop # NotSearching
                   THEN track_arg_tab_stop(q, q.tracking_arg_tab_stop)
                   ELSE q))

\* ------------------------------------------------------------------------
\* Cursor functions

is_cursor_left_of_exclusive(cursor_x, cursor_line, x, line_no) ==
    IF x # None /\ cursor_x # None
    THEN cursor_line = line_no /\ cursor_x < x
    ELSE FALSE

is_cursor_left_of(cursor_x, cursor_line, x, line_no) ==
    IF x # None /\ cursor_x # None
    THEN cursor_line = line_no /\ cursor_x <= x
    ELSE FALSE

is_cursor_right_of(cursor_x, cursor_line, x, line_no) ==
    IF x # None /\ cursor_x # None
    THEN cursor_line = line_no /\ cursor_x > x
    ELSE FALSE

is_cursor_in_comment(r, cursor_x, cursor_line) ==
    is_cursor_right_of(cursor_x, cursor_line, column_to_option(r.comment_x), r.line_no)

\* handle_change_delta that takes the changes in every mode
handle_change_delta_in_every_mode(r) ==
    IF /\ ~changes_is_empty(r.changes)
       /\ changes_contains(r.changes, r.input_line_no, r.input_x)
    THEN LET change == changes_get(r.changes, r.input_line_no, r.input_x)
         IN [r EXCEPT !.indent_delta =
                          r.indent_delta + (change.new_end_x - change.old_end_x)]
    ELSE r

handle_change_delta(r) ==
    IF /\ ~changes_is_empty(r.changes)
       /\ (r.smart \/ r.mode = Paren)
       /\ changes_contains(r.changes, r.input_line_no, r.input_x)
    THEN LET change == changes_get(r.changes, r.input_line_no, r.input_x)
         IN [r EXCEPT !.indent_delta =
                          r.indent_delta + (change.new_end_x - change.old_end_x)]
    ELSE r

\* ------------------------------------------------------------------------
\* Paren Trail functions

is_cursor_clamping_paren_trail_in_comment(r, cursor_x, cursor_line) ==
    is_cursor_right_of(cursor_x, cursor_line, r.paren_trail.start_x, r.line_no)

is_cursor_clamping_paren_trail(r, cursor_x, cursor_line) ==
    /\ is_cursor_right_of(cursor_x, cursor_line, r.paren_trail.start_x, r.line_no)
    /\ ~is_cursor_in_comment(r, cursor_x, cursor_line)

\* the close brackets of a line that start at a display column in [from, to)
CloseParensIn(line, from, to) ==
    SelectSeq([i \in 1..Len(line) |->
                  IF StartColumn(line, i) >= from /\ StartColumn(line, i) < to
                     /\ rust_is_close_paren(line[i])
                  THEN line[i] ELSE EMPTY],
              LAMBDA g : g # EMPTY)

\* the graphemes of a line that start in [from, to) and are no close bracket
SpaceCountIn(line, from, to) ==
    Cardinality({i \in 1..Len(line) :
                    /\ StartColumn(line, i) >= from
                    /\ StartColumn(line, i) < to
                    /\ ~rust_is_close_paren(line[i])})

Max(a, b) == IF a >= b THEN a ELSE b

\* INDENT MODE: allow the cursor to clamp the paren trail
clamp_paren_trail_to_cursor(r) ==
    LET clamping == is_cursor_clamping_paren_trail(
                        r, column_to_option(r.cursor_x),
                        line_number_to_option(r.cursor_line))
        start_x == r.paren_trail.start_x
        end_x == r.paren_trail.end_x
        new_start_x == Max(start_x, r.cursor_x)
        new_end_x == Max(end_x, r.cursor_x)
        line == r.lines[r.line_no + 1]
        remove_count == Len(CloseParensIn(line, start_x, new_start_x))
        openers == r.paren_trail.openers
    IN IF ~clamping THEN r
       \* &openers[remove_count..] panics past the end
       ELSE IF remove_count > Len(openers) THEN Raise(r, Panic)
       ELSE [r EXCEPT
               !.paren_trail.openers = SubSeq(openers, remove_count + 1, Len(openers)),
               !.paren_trail.start_x = new_start_x,
               !.paren_trail.end_x = new_end_x,
               !.paren_trail.clamped.openers = SubSeq(openers, 1, remove_count),
               !.paren_trail.clamped.start_x = start_x,
               !.paren_trail.clamped.end_x = end_x]

Reverse(s) == [i \in 1..Len(s) |-> s[Len(s) + 1 - i]]

pop_paren_trail(r) ==
    IF r.paren_trail.start_x = r.paren_trail.end_x THEN r
    ELSE [r EXCEPT !.paren_stack = r.paren_stack \o Reverse(r.paren_trail.openers),
                   !.paren_trail.openers = << >>]

\* get_parent_opener_index from stack position i on: [r, index], r the state
\* with the adopted opener's indent_delta cleared
RECURSIVE get_parent_opener_index_from(_, _, _)
get_parent_opener_index_from(r, indent_x, i) ==
    IF i >= Len(r.paren_stack) THEN [r |-> r, index |-> Len(r.paren_stack)]
    ELSE
      LET opener == peek(r.paren_stack, i)
          opener_index == Len(r.paren_stack) - i
          curr_outside == opener.x < indent_x
          prev_indent_x == indent_x - r.indent_delta
          prev_outside == opener.x - opener.indent_delta < prev_indent_x
          has_next == HasPeek(r.paren_stack, i + 1)
          next_opener == peek(r.paren_stack, i + 1)
          is_parent ==
            CASE prev_outside /\ curr_outside -> TRUE
              [] ~prev_outside /\ ~curr_outside -> FALSE
                 \* POSSIBLE FRAGMENTATION
              [] prev_outside /\ ~curr_outside -> r.indent_delta = 0
                 \* POSSIBLE ADOPTION
              [] OTHER ->
                   IF has_next /\ next_opener.indent_delta <= opener.indent_delta
                   THEN indent_x + next_opener.indent_delta > opener.x
                   ELSE IF has_next /\ next_opener.indent_delta > opener.indent_delta
                   THEN TRUE
                   ELSE r.indent_delta > opener.indent_delta
          r1 == IF ~prev_outside /\ curr_outside /\ is_parent
                THEN [r EXCEPT !.paren_stack[opener_index].indent_delta = 0]
                ELSE r
      IN IF is_parent THEN [r |-> r1, index |-> i]
         ELSE get_parent_opener_index_from(r1, indent_x, i + 1)

get_parent_opener_index(r, indent_x) == get_parent_opener_index_from(r, indent_x, 0)

remember_paren_trail(r) ==
    IF Len(r.paren_trail.clamped.openers) > 0 \/ Len(r.paren_trail.openers) > 0
    THEN LET is_clamped == r.paren_trail.clamped.start_x # None
             short_trail ==
               [line_no |-> r.paren_trail.line_no,
                start_x |-> IF is_clamped THEN r.paren_trail.clamped.start_x
                            ELSE r.paren_trail.start_x,
                end_x |-> IF is_clamped THEN r.paren_trail.clamped.end_x
                          ELSE r.paren_trail.end_x]
         IN [r EXCEPT !.paren_trails = Append(r.paren_trails, short_trail)]
    ELSE r

correct_paren_trail_outermost_first(r, indent_x) ==
    Bind(get_parent_opener_index(r, indent_x), LAMBDA found :
    LET r0 == found.r
        index == found.index
        n == Len(r0.paren_stack)
        popped == [k \in 1..index |-> r0.paren_stack[n - index + k]]
        parens == [k \in 1..index |-> match_paren(popped[k].ch)]
    IN Bind([r0 EXCEPT !.paren_stack = SubSeq(r0.paren_stack, 1, n - index),
                       !.paren_trail.openers = r0.paren_trail.openers \o popped],
            LAMBDA r1 :
       IF r1.paren_trail.line_no # None
       THEN Try(Bind(replace_within_line(r1, r1.paren_trail.line_no,
                                         r1.paren_trail.start_x,
                                         r1.paren_trail.end_x, parens),
                     LAMBDA r2 : [r2 EXCEPT !.paren_trail.end_x =
                                      r2.paren_trail.start_x + Len(parens)]),
                remember_paren_trail)
       ELSE r1))

correct_paren_trail_to_end_of_line(r, indent_x) ==
    Bind(get_parent_opener_index(r, indent_x), LAMBDA found :
    LET r0 == found.r
        index == found.index
        n == Len(r0.paren_stack)
        popped == [k \in 1..index |-> r0.paren_stack[n + 1 - k]]
        parens == [k \in 1..index |-> match_paren(popped[k].ch)]
    IN Bind([r0 EXCEPT !.paren_stack = SubSeq(r0.paren_stack, 1, n - index),
                       !.paren_trail.openers = r0.paren_trail.openers \o popped],
            LAMBDA r1 :
       IF r1.paren_trail.line_no # None
       THEN Try(Bind(replace_within_line(r1, r1.paren_trail.line_no,
                                         r1.paren_trail.start_x,
                                         SumWidth(r1.lines[r1.paren_trail.line_no + 1]),
                                         parens),
                     LAMBDA r2 : [r2 EXCEPT !.paren_trail.end_x =
                                      r2.paren_trail.start_x + Len(parens)]),
                remember_paren_trail)
       ELSE r1))

\* INDENT MODE: correct paren trail from indentation
correct_paren_trail(r, indent_x) ==
    Bind(get_parent_opener_index(r, indent_x), LAMBDA found :
    LET r0 == found.r
        index == found.index
        n == Len(r0.paren_stack)
        popped == [k \in 1..index |-> r0.paren_stack[n + 1 - k]]
        parens == [k \in 1..index |-> match_paren(popped[k].ch)]
    IN Bind([r0 EXCEPT !.paren_stack = SubSeq(r0.paren_stack, 1, n - index),
                       !.paren_trail.openers = r0.paren_trail.openers \o popped],
            LAMBDA r1 :
       IF r1.paren_trail.line_no # None
       THEN Try(Bind(replace_within_line(r1, r1.paren_trail.line_no,
                                         r1.paren_trail.start_x,
                                         r1.paren_trail.end_x, parens),
                     LAMBDA r2 : [r2 EXCEPT !.paren_trail.end_x =
                                      r2.paren_trail.start_x + Len(parens)]),
                remember_paren_trail)
       ELSE r1))

clean_paren_trail(r) ==
    LET start_x == r.paren_trail.start_x
        end_x == r.paren_trail.end_x
        line == r.lines[r.line_no + 1]
        new_trail == CloseParensIn(line, start_x, end_x)
        space_count == SpaceCountIn(line, start_x, end_x)
    IN IF start_x = end_x \/ r.line_no # r.paren_trail.line_no THEN r
       ELSE IF space_count > 0
       THEN Bind(replace_within_line(r, r.line_no, start_x, end_x, new_trail),
                 LAMBDA r1 : [r1 EXCEPT !.paren_trail.end_x =
                                  r1.paren_trail.end_x - space_count])
       ELSE r

set_max_indent(r, opener) ==
    IF r.paren_stack # << >>
    THEN [r EXCEPT !.paren_stack[Len(r.paren_stack)].max_child_indent = opener.x]
    ELSE [r EXCEPT !.max_indent = opener.x]

update_remembered_paren_trail(r) ==
    IF \/ r.paren_trails = << >>
       \/ r.paren_trails[Len(r.paren_trails)].line_no # r.paren_trail.line_no
    THEN remember_paren_trail(r)
    ELSE [r EXCEPT !.paren_trails[Len(r.paren_trails)].end_x = r.paren_trail.end_x]

append_paren_trail(r) ==
    IF r.paren_stack = << >> \/ r.paren_trail.line_no = None THEN Raise(r, Panic)
    ELSE
      LET opener == peek(r.paren_stack, 0)
          close_ch == match_paren(opener.ch)
      IN Bind(set_max_indent(
                  [r EXCEPT !.paren_stack =
                                SubSeq(r.paren_stack, 1, Len(r.paren_stack) - 1)],
                  opener),
              LAMBDA r2 :
         Try(Bind(insert_within_line(r2, r2.paren_trail.line_no,
                                     r2.paren_trail.end_x, <<close_ch>>),
                  LAMBDA r3 :
                  [r3 EXCEPT !.paren_trail.end_x = r3.paren_trail.end_x + 1,
                             !.paren_trail.openers =
                                 Append(r3.paren_trail.openers, opener)]),
             update_remembered_paren_trail))

invalidate_paren_trail(r) == [r EXCEPT !.paren_trail = initial_paren_trail]

check_unmatched_outside_paren_trail_inclusive(r) ==
    LET do_error == /\ cache_contains(r, "UnmatchedCloseParen")
                    /\ r.paren_trail.start_x # None
                    /\ r.error_pos_cache["UnmatchedCloseParen"].x <= r.paren_trail.start_x
    IN IF do_error THEN Raise(r, error(r, "UnmatchedCloseParen")) ELSE r

check_unmatched_outside_paren_trail(r) ==
    LET do_error == /\ cache_contains(r, "UnmatchedCloseParen")
                    /\ r.paren_trail.start_x # None
                    /\ r.error_pos_cache["UnmatchedCloseParen"].x < r.paren_trail.start_x
    IN IF do_error THEN Raise(r, error(r, "UnmatchedCloseParen")) ELSE r

finish_new_paren_trail(r) ==
    IF is_in_stringish(r) THEN invalidate_paren_trail(r)
    ELSE IF r.mode = Indent
    THEN Try(clamp_paren_trail_to_cursor(r), pop_paren_trail)
    ELSE Bind(IF HasPeek(r.paren_trail.openers, 0)
              THEN set_max_indent(r, peek(r.paren_trail.openers, 0))
              ELSE r,
              LAMBDA r1 :
         Try(IF r1.line_no # r1.cursor_line THEN clean_paren_trail(r1) ELSE r1,
             remember_paren_trail))

\* ------------------------------------------------------------------------
\* Indentation functions

\* add_indent that rewrites the indentation and keeps the old column
add_indent_stale_x(r, delta) ==
    LET orig_indent == r.x
        new_indent == orig_indent + delta
    IN IF new_indent < 0 THEN Raise(r, Panic)
       ELSE Bind(replace_within_line(r, r.line_no, 0, orig_indent,
                                     repeat_string(BLANK_SPACE, new_indent)),
                 LAMBDA r1 : [r1 EXCEPT !.indent_x = new_indent,
                                        !.indent_delta = r1.indent_delta + delta])

\* (orig_indent + delta) as Column: a negative value wraps to a huge usize
\* and repeat_string cannot allocate it
add_indent(r, delta) ==
    LET orig_indent == r.x
        new_indent == orig_indent + delta
    IN IF new_indent < 0 THEN Raise(r, Panic)
       ELSE Bind(replace_within_line(r, r.line_no, 0, orig_indent,
                                     repeat_string(BLANK_SPACE, new_indent)),
                 LAMBDA r1 : [r1 EXCEPT !.x = new_indent,
                                        !.indent_x = new_indent,
                                        !.indent_delta = r1.indent_delta + delta])

should_add_opener_indent(r, opener) == opener.indent_delta # r.indent_delta

correct_indent_under_opener(r) ==
    LET orig_indent == r.x
        has_opener == HasPeek(r.paren_stack, 0)
        opener == peek(r.paren_stack, 0)
        min_indent == IF has_opener THEN opener.x ELSE 0
        max_indent == IF has_opener THEN opener.max_child_indent ELSE r.max_indent
        shifted == IF has_opener /\ should_add_opener_indent(r, opener)
                   THEN orig_indent + opener.indent_delta
                   ELSE orig_indent
        new_indent == clamp(shifted, min_indent, max_indent)
    IN IF new_indent # orig_indent
       THEN add_indent(r, new_indent - orig_indent)
       ELSE r

correct_indent(r) ==
    LET orig_indent == r.x
        has_opener == HasPeek(r.paren_stack, 0)
        opener == peek(r.paren_stack, 0)
        min_indent == IF has_opener THEN opener.x + 1 ELSE 0
        max_indent == IF has_opener THEN opener.max_child_indent ELSE r.max_indent
        shifted == IF has_opener /\ should_add_opener_indent(r, opener)
                   THEN orig_indent + opener.indent_delta
                   ELSE orig_indent
        new_indent == clamp(shifted, min_indent, max_indent)
    IN IF new_indent # orig_indent
       THEN add_indent(r, new_indent - orig_indent)
       ELSE r

on_indent(r) ==
    Bind([r EXCEPT !.indent_x = r.x, !.tracking_indent = FALSE], LAMBDA r1 :
    IF r1.quote_danger THEN Raise(r1, error(r1, "QuoteDanger"))
    ELSE IF r1.mode = Indent
    THEN Try(correct_paren_trail(r1, r1.x),
             LAMBDA q : IF /\ HasPeek(q.paren_stack, 0)
                           /\ should_add_opener_indent(q, peek(q.paren_stack, 0))
                        THEN add_indent(q, peek(q.paren_stack, 0).indent_delta)
                        ELSE q)
    ELSE correct_indent(r1))

\* check_leading_close_paren that does not look where the paren trail is
check_leading_close_paren_anywhere(r) ==
    IF cache_contains(r, "LeadingCloseParen")
    THEN Raise(r, error(r, "LeadingCloseParen"))
    ELSE r

check_leading_close_paren(r) ==
    IF /\ cache_contains(r, "LeadingCloseParen")
       /\ r.paren_trail.line_no = r.line_no
    THEN Raise(r, error(r, "LeadingCloseParen"))
    ELSE r

\* on_leading_close_paren that appends the bracket to the paren trail and
\* forgets to skip it where it stands
on_leading_close_paren_unskipped(r) ==
    IF r.mode = Indent
    THEN IF ~r.force_balance /\ r.smart
         THEN Raise(r, error(r, "Restart"))
         ELSE Bind(IF ~r.force_balance /\ ~cache_contains(r, "LeadingCloseParen")
                   THEN cache_error_pos(r, "LeadingCloseParen")
                   ELSE r,
                   LAMBDA r1 : [r1 EXCEPT !.skip_char = TRUE])
    ELSE IF ~is_valid_close_paren(r.paren_stack, r.ch)
         THEN IF r.smart THEN [r EXCEPT !.skip_char = TRUE]
              ELSE Raise(r, error(r, "UnmatchedCloseParen"))
         ELSE IF is_cursor_left_of(column_to_option(r.cursor_x),
                                   line_number_to_option(r.cursor_line),
                                   r.x, r.line_no)
         THEN on_indent(reset_paren_trail(r, r.line_no, r.x))
         ELSE append_paren_trail(r)

on_leading_close_paren(r) ==
    IF r.mode = Indent
    THEN IF ~r.force_balance /\ r.smart
         THEN Raise(r, error(r, "Restart"))
         ELSE Bind(IF ~r.force_balance /\ ~cache_contains(r, "LeadingCloseParen")
                   THEN cache_error_pos(r, "LeadingCloseParen")
                   ELSE r,
                   LAMBDA r1 : [r1 EXCEPT !.skip_char = TRUE])
    ELSE IF ~is_valid_close_paren(r.paren_stack, r.ch)
         THEN IF r.smart THEN [r EXCEPT !.skip_char = TRUE]
              ELSE Raise(r, error(r, "UnmatchedCloseParen"))
         ELSE IF is_cursor_left_of(column_to_option(r.cursor_x),
                                   line_number_to_option(r.cursor_line),
                                   r.x, r.line_no)
         THEN on_indent(reset_paren_trail(r, r.line_no, r.x))
         ELSE Try(append_paren_trail(r), LAMBDA q : [q EXCEPT !.skip_char = TRUE])

on_comment_line(r) ==
    \* restore the openers matching the previous paren trail
    Bind(get_parent_opener_index(
             IF r.mode = Paren
             THEN [r EXCEPT !.paren_stack =
                                r.paren_stack \o Reverse(r.paren_trail.openers)]
             ELSE r,
             r.x),
         LAMBDA found :
    Bind(IF /\ HasPeek(found.r.paren_stack, found.index)
            /\ should_add_opener_indent(found.r,
                                        peek(found.r.paren_stack, found.index))
         THEN peek(found.r.paren_stack, found.index).indent_delta
         ELSE 0,
         LAMBDA indent_to_add :
    Bind(IF indent_to_add # 0 THEN add_indent(found.r, indent_to_add) ELSE found.r,
         LAMBDA r3 :
    \* repop the openers matching the previous paren trail
    IF r3.mode = Paren
    THEN [r3 EXCEPT !.paren_stack =
             SubSeq(r3.paren_stack, 1,
                    Len(r3.paren_stack) - Len(r.paren_trail.openers))]
    ELSE r3)))

check_indent(r) ==
    IF rust_is_close_paren(r.ch) THEN on_leading_close_paren(r)
    ELSE IF r.ch = r.comment_char
    THEN \* comments don't count as indentation points
         Try(on_comment_line(r), LAMBDA q : [q EXCEPT !.tracking_indent = FALSE])
    ELSE IF r.ch # NEWLINE /\ r.ch # BLANK_SPACE /\ r.ch # TAB
    THEN on_indent(r)
    ELSE r

make_tab_stop(opener) ==
    [ch |-> opener.ch, x |-> opener.x, line_no |-> opener.line_no,
     arg_x |-> opener.arg_x]

get_tab_stop_line(r) ==
    IF line_number_to_option(r.selection_start_line) # None
    THEN line_number_to_option(r.selection_start_line)
    ELSE line_number_to_option(r.cursor_line)

\* remove argX if it falls to the right of the next stop, for i from `from' on
RECURSIVE drop_eclipsed_arg_x(_, _)
drop_eclipsed_arg_x(stops, i) ==
    IF i >= Len(stops) THEN stops
    ELSE LET prev_arg_x == stops[i].arg_x
             next == IF prev_arg_x # None /\ prev_arg_x >= stops[i + 1].x
                     THEN [stops EXCEPT ![i].arg_x = None]
                     ELSE stops
         IN drop_eclipsed_arg_x(next, i + 1)

set_tab_stops(r) ==
    IF get_tab_stop_line(r) = None \/ get_tab_stop_line(r) # r.line_no THEN r
    ELSE LET stack_tabs == [i \in 1..Len(r.paren_stack) |->
                               make_tab_stop(r.paren_stack[i])]
             rev == Reverse(r.paren_trail.openers)
             paren_trail_tabs == [i \in 1..Len(rev) |-> make_tab_stop(rev[i])]
             stops == IF r.mode = Paren THEN stack_tabs \o paren_trail_tabs
                      ELSE stack_tabs
         IN [r EXCEPT !.tab_stops = drop_eclipsed_arg_x(stops, 1)]

\* ------------------------------------------------------------------------
\* High-level processing functions

process_char(r, ch) ==
    Bind(handle_change_delta([r EXCEPT !.ch = ch, !.skip_char = FALSE]), LAMBDA r1 :
    Try(Try(IF r1.tracking_indent THEN check_indent(r1) ELSE r1,
            LAMBDA q : IF q.skip_char THEN [q EXCEPT !.ch = EMPTY] ELSE on_char(q)),
        LAMBDA q : commit_char(q, ch)))

\* process_line up to its loop: init_line, the push of the input line,
\* set_tab_stops (with process_text's store to input_line_no)
process_line_begin(r, line_no) ==
    Bind(init_line([r EXCEPT !.input_line_no = line_no]), LAMBDA r1 :
    set_tab_stops([r1 EXCEPT !.lines =
                       Append(r1.lines, r1.input_lines[line_no + 1])]))

\* one iteration of process_line's loop: grapheme j (from 1) of the line
process_line_grapheme(r, j) ==
    LET line == r.input_lines[r.input_line_no + 1]
    IN process_char([r EXCEPT !.input_x = StartColumn(line, j)], line[j])

\* process_line after its loop
process_line_end(r) ==
    Try(Try(process_char(r, NEWLINE),
            LAMBDA q : IF ~q.force_balance
                       THEN Try(check_unmatched_outside_paren_trail(q),
                                check_leading_close_paren)
                       ELSE q),
        LAMBDA q : IF q.line_no = q.paren_trail.line_no
                   THEN finish_new_paren_trail(q)
                   ELSE q)

finalize_result(r) ==
    IF r.quote_danger THEN Raise(r, error(r, "QuoteDanger"))
    ELSE IF is_in_stringish(r) THEN Raise(r, error(r, "UnclosedQuote"))
    ELSE IF Len(r.paren_stack) # 0 /\ r.mode = Paren
    THEN Raise(r, error(r, "UnclosedParen"))
    ELSE Try(IF r.mode = Indent THEN on_indent(init_line(r)) ELSE r,
             LAMBDA q : [q EXCEPT !.success = TRUE])

process_error(r, e) == [r EXCEPT !.success = FALSE, !.error = e]

\* process_line as a whole: the loop over the graphemes of the line, left at
\* the first Err
RECURSIVE process_line_from(_, _)
process_line_from(r, k) ==
    IF r.raised # NoError THEN r
    ELSE IF k > Len(r.input_lines[r.input_line_no + 1]) THEN process_line_end(r)
    ELSE process_line_from(process_line_grapheme(r, k), k + 1)

process_line(r, line_no) == process_line_from(process_line_begin(r, line_no), 1)

\* process_text's loop over the lines from line i on, then finalize_result
RECURSIVE process_lines(_, _)
process_lines(r, i) ==
    IF r.raised # NoError THEN r
    ELSE IF i >= Len(r.input_lines) THEN finalize_result(r)
    ELSE process_lines(process_line(r, i), i + 1)

\* the State process_text ends with, through its Restart arm
RECURSIVE process_text_result(_, _, _, _, _)
process_text_result(txt, input_lines, opts, mode, smart) ==
    Bind(process_lines(get_initial_result(txt, input_lines, opts, mode, smart), 0),
         LAMBDA r :
    IF r.raised.name = "Restart"
    THEN process_text_result(txt, input_lines, opts, Paren, smart)
    ELSE IF r.raised # NoError /\ r.raised # Panic THEN process_error(r, r.raised)
    ELSE r)

\* ------------------------------------------------------------------------
\* Public API

\* public_result that returns the partial result of a failed call
public_result_partial(r) ==
    [text |-> Join(r.lines, get_line_ending(r.orig_text)),
     cursor_x |-> column_to_option(r.cursor_x),
     cursor_line |-> line_number_to_option(r.cursor_line),
     success |-> r.success,
     tab_stops |-> r.tab_stops,
     paren_trails |-> r.paren_trails,
     error |-> IF r.success THEN NoError ELSE r.error]

\* struct Answer (parens is empty: return_parens is never set)
public_result(r) ==
    LET line_ending == get_line_ending(r.orig_text)
    IN IF r.success
       THEN [text |-> Join(r.lines, line_ending),
             cursor_x |-> column_to_option(r.cursor_x),
             cursor_line |-> line_number_to_option(r.cursor_line),
             success |-> TRUE,
             tab_stops |-> r.tab_stops,
             paren_trails |-> r.paren_trails,
             error |-> NoError]
       ELSE [text |-> IF r.partial_result THEN Join(r.lines, line_ending)
                      ELSE r.orig_text,
             cursor_x |-> IF r.partial_result THEN column_to_option(r.cursor_x)
                          ELSE column_to_option(r.orig_cursor_x),
             cursor_line |-> IF r.partial_result
                             THEN line_number_to_option(r.cursor_line)
                             ELSE line_number_to_option(r.orig_cursor_line),
             success |-> FALSE,
             tab_stops |-> r.tab_stops,
             paren_trails |-> r.paren_trails,
             error |-> r.error]

\* process_text as a whole: the Answer of a call that does not panic
process_text(txt, input_lines, opts, mode, smart) ==
    public_result(process_text_result(txt, input_lines, opts, mode, smart))

\* ------------------------------------------------------------------------
\* The caller: a text buffer and the Options of a call

DefaultOptions ==
    [cursor_x |-> None, cursor_line |-> None,
     prev_cursor_x |-> None, prev_cursor_line |-> None,
     selection_start_line |-> None,
     changes |-> << >>,
     comment_char |-> ";",
     lisp_vline_symbols |-> FALSE,
     lisp_block_comments |-> FALSE,
     guile_block_comments |-> FALSE,
     scheme_sexp_comments |-> FALSE,
     janet_long_strings |-> FALSE]

\* every text of at most n graphemes over an alphabet
Texts(alphabet, n) == UNION {[1..k -> alphabet] : k \in 0..n}

\* the State before any call, and the Answer before any return
NoState == get_initial_result(<< >>, << << >> >>, DefaultOptions, Indent, FALSE)
NoAnswer == public_result(NoState)

\* no unit test running
NoUnit == [args |-> << >>, returned |-> FALSE, value |-> None]

VARIABLES
    text,      \* the caller's text buffer
    options,   \* the caller's Options
    call,      \* the public function running or last run, "none" before any
    fed,       \* the public function whose output `text' is, "none" for the caller's own text
    pc,        \* where process_text stands
    passes,    \* how many times process_text was entered in this call
    result,    \* process_text's State
    j,         \* the next grapheme of the current input line, from 1
    answer,    \* the Answer returned
    unit       \* a unit test of a helper function: its arguments and what it returned

vars == <<text, options, call, fed, pc, passes, result, j, answer, unit>>

\* ------------------------------------------------------------------------
\* process_text as a state machine

\* the public functions: split_lines, then process_text's get_initial_result
indent_mode ==
    /\ pc = "idle"
    /\ call' = "indent_mode"
    /\ result' = get_initial_result(text, split_lines(text), options, Indent, FALSE)
    /\ passes' = 1
    /\ pc' = "process_line"
    /\ UNCHANGED <<text, options, fed, j, answer, unit>>

paren_mode ==
    /\ pc = "idle"
    /\ call' = "paren_mode"
    /\ result' = get_initial_result(text, split_lines(text), options, Paren, FALSE)
    /\ passes' = 1
    /\ pc' = "process_line"
    /\ UNCHANGED <<text, options, fed, j, answer, unit>>

\* smart_mode that keeps smart enabled whatever the selection
smart_mode_ignoring_selection ==
    /\ pc = "idle"
    /\ call' = "smart_mode"
    /\ result' = get_initial_result(text, split_lines(text), options, Indent, TRUE)
    /\ passes' = 1
    /\ pc' = "process_line"
    /\ UNCHANGED <<text, options, fed, j, answer, unit>>

smart_mode ==
    /\ pc = "idle"
    /\ call' = "smart_mode"
    /\ result' = get_initial_result(text, split_lines(text), options, Indent,
                                    options.selection_start_line = None)
    /\ passes' = 1
    /\ pc' = "process_line"
    /\ UNCHANGED <<text, options, fed, j, answer, unit>>

\* where the loop of process_text goes after a step of a line
AfterStep(r, continue) == IF r.raised # NoError THEN "match_process_result" ELSE continue

\* process_line, before its loop over the graphemes
ProcessLineBegin ==
    /\ pc = "process_line"
    /\ result' = process_line_begin(result, Len(result.lines))
    /\ j' = 1
    /\ pc' = "process_char"
    /\ UNCHANGED <<text, options, call, fed, passes, answer, unit>>

\* process_line, one iteration of its loop
ProcessChar ==
    /\ pc = "process_char"
    /\ j <= Len(result.input_lines[result.input_line_no + 1])
    /\ result' = process_line_grapheme(result, j)
    /\ j' = j + 1
    /\ pc' = AfterStep(result', "process_char")
    /\ UNCHANGED <<text, options, call, fed, passes, answer, unit>>

\* process_line, after its loop; then the next line or finalize_result
ProcessLineEnd ==
    /\ pc = "process_char"
    /\ j > Len(result.input_lines[result.input_line_no + 1])
    /\ result' = process_line_end(result)
    /\ pc' = AfterStep(result',
                       IF Len(result.lines) < Len(result.input_lines)
                       THEN "process_line" ELSE "finalize_result")
    /\ UNCHANGED <<text, options, call, fed, passes, j, answer, unit>>

FinalizeResult ==
    /\ pc = "finalize_result"
    /\ result' = finalize_result(result)
    /\ pc' = "match_process_result"
    /\ UNCHANGED <<text, options, call, fed, passes, j, answer, unit>>

\* match process_result without its Restart arm: the Err(e) arm takes it
Restart_returned ==
    /\ pc = "match_process_result"
    /\ result.raised.name = "Restart"
    /\ result' = process_error(result, result.raised)
    /\ answer' = public_result(result')
    /\ pc' = "done"
    /\ UNCHANGED <<text, options, call, fed, passes, j, unit>>

\* match process_result: the Restart arm re-enters process_text in Paren mode
Restart ==
    /\ pc = "match_process_result"
    /\ result.raised.name = "Restart"
    /\ result' = get_initial_result(text, result.input_lines, options, Paren, result.smart)
    /\ passes' = passes + 1
    /\ pc' = "process_line"
    /\ UNCHANGED <<text, options, call, fed, j, answer, unit>>

\* match process_result: the other arms return public_result; a panic returns
\* nothing
Return ==
    /\ pc = "match_process_result"
    /\ result.raised.name # "Restart"
    /\ IF result.raised = Panic
       THEN /\ pc' = "panicked"
            /\ UNCHANGED <<result, answer>>
       ELSE /\ result' = IF result.raised # NoError
                         THEN process_error(result, result.raised)
                         ELSE result
            /\ answer' = public_result(result')
            /\ pc' = "done"
    /\ UNCHANGED <<text, options, call, fed, passes, j, unit>>

\* the caller takes the text of a successful answer of indent_mode or
\* paren_mode, given without cursor, changes or syntax options, as its buffer
Reuse ==
    /\ pc = "done"
    /\ fed = "none"
    /\ answer.success
    /\ options = DefaultOptions
    /\ call \in {"indent_mode", "paren_mode"}
    /\ text' = answer.text
    /\ fed' = call
    /\ call' = "none"
    /\ pc' = "idle"
    /\ result' = NoState
    /\ answer' = NoAnswer
    /\ passes' = 0
    /\ j' = 1
    /\ UNCHANGED <<options, unit>>

Next ==
    \/ indent_mode
    \/ paren_mode
    \/ smart_mode
    \/ ProcessLineBegin
    \/ ProcessChar
    \/ ProcessLineEnd
    \/ FinalizeResult
    \/ Restart
    \/ Return
    \/ Reuse

InitWith(texts, opts) ==
    /\ text \in texts
    /\ options \in opts
    /\ call = "none"
    /\ fed = "none"
    /\ pc = "idle"
    /\ passes = 0
    /\ result = NoState
    /\ j = 1
    /\ answer = NoAnswer
    /\ unit = NoUnit

\* ------------------------------------------------------------------------
\* The callers

\* every text of at most n lines, each line one of the shapes
LinedTexts(shapes, n) ==
    UNION {{Join(ls, <<NEWLINE>>) : ls \in [1..k -> shapes]} : k \in 1..n}

\* the Options with a cursor, a previous cursor and a change list
EditOptions(cursor, prev_cursor, changes) ==
    [DefaultOptions EXCEPT !.cursor_x = cursor[1],
                           !.cursor_line = cursor[2],
                           !.prev_cursor_x = prev_cursor[1],
                           !.prev_cursor_line = prev_cursor[2],
                           !.changes = changes]

\* struct Change: an insertion and a deletion
Insertion(x, line_no, new_text) ==
    [x |-> x, line_no |-> line_no, old_text |-> << >>, new_text |-> new_text]
Deletion(x, line_no, old_text) ==
    [x |-> x, line_no |-> line_no, old_text |-> old_text, new_text |-> << >>]

\* Spec: a caller without cursor, changes or syntax options
MaxLen == 4
Alphabet == {"(", ")", "a", " ", NEWLINE}
MaxLines == 3
LineShapes ==
    {<<"(">>, <<"a">>, <<" ", "a">>, <<"(", "a", ")">>, <<")">>,
     <<" ", " ", "(", "a">>, <<TAB, "a", ")">>,
     <<")", BACKSLASH>>}

Init ==
    InitWith(Texts(Alphabet, MaxLen) \cup LinedTexts(LineShapes, MaxLines),
             {DefaultOptions})

Spec == Init /\ [][Next]_vars

\* SpecEdits: an editor, which passes its cursor, the cursor before the
\* edit and the edit
MaxLenEdits == 3
AlphabetEdits == {"(", ")", "a", NEWLINE}
Cursors == {<<None, None>>, <<0, 0>>, <<1, 0>>, <<2, 0>>, <<0, 1>>}
PrevCursors == {<<None, None>>, <<0, 0>>, <<1, 0>>}
ChangeLists ==
    {<< >>,
     <<Insertion(0, 0, <<"a">>)>>,
     <<Deletion(1, 0, <<"a", "a">>)>>,
     <<Insertion(0, 0, <<"a">>), Insertion(0, 0, <<"a", "a">>)>>}

InitEdits ==
    InitWith(Texts(AlphabetEdits, MaxLenEdits),
             {EditOptions(c, p, ch) :
                 c \in Cursors, p \in PrevCursors, ch \in ChangeLists})

SpecEdits == InitEdits /\ [][Next]_vars

\* SpecSyntax: callers of the Lisp dialects, with strings, comments, escapes,
\* block comments and long strings
MaxLinesSyntax == 2
SyntaxShapes ==
    {<<"(", "a">>, <<")">>, <<"(", "]">>, <<BACKSLASH, ")">>,
     <<DOUBLE_QUOTE>>, <<";", DOUBLE_QUOTE>>, <<"a", BACKSLASH>>,
     <<NUMBER_SIGN, VERTICAL_LINE>>, <<VERTICAL_LINE, NUMBER_SIGN>>,
     <<NUMBER_SIGN, BANG>>, <<BANG, NUMBER_SIGN>>,
     <<GRAVE>>, <<NUMBER_SIGN, BACKSLASH>>, <<";", BACKSLASH>>,
     <<"(", "a", ")", ")">>, <<";", BACKSLASH, DOUBLE_QUOTE>>,
     <<TAB, "a">>, <<"(", "a", TAB, "a">>, <<";", TAB>>,
     <<BACKSLASH, BACKSLASH, "(">>}
SyntaxOptions ==
    {DefaultOptions,
     [DefaultOptions EXCEPT !.lisp_vline_symbols = TRUE],
     [DefaultOptions EXCEPT !.lisp_block_comments = TRUE],
     [DefaultOptions EXCEPT !.guile_block_comments = TRUE],
     [DefaultOptions EXCEPT !.janet_long_strings = TRUE]}

InitSyntax == InitWith(LinedTexts(SyntaxShapes, MaxLinesSyntax), SyntaxOptions)

SpecSyntax == InitSyntax /\ [][Next]_vars

\* SpecCursor: an editor that passes its cursor, the cursor before the edit
\* or the start of its selection, on texts of several lines
MaxLinesCursor == 2
CursorShapes ==
    {<<"(">>, <<"a">>, <<")">>, <<" ", "a">>, <<"(", "a", ")", ")">>,
     <<"(", "a", ";", "a">>, <<"(", TAB, "a">>, <<" ", ")">>,
     <<"(", "(", ")">>, <<" ", " ", ")">>}
CursorPositions == {<<0, 0>>, <<1, 0>>, <<2, 0>>, <<0, 1>>, <<1, 1>>, <<3, 1>>}
CursorOptions ==
    {DefaultOptions}
    \cup {EditOptions(c, <<None, None>>, << >>) : c \in CursorPositions}
    \cup {EditOptions(<<1, 0>>, <<0, 0>>, << >>)}
    \cup {[EditOptions(c, <<None, None>>, << >>) EXCEPT !.selection_start_line = 0] :
              c \in {<<None, None>>, <<2, 0>>, <<0, 1>>}}

InitCursor == InitWith(LinedTexts(CursorShapes, MaxLinesCursor), CursorOptions)

SpecCursor == InitCursor /\ [][Next]_vars

\* SpecClamp: the unit test clamp_works, on every value and pair of optional
\* bounds up to MaxVal
MaxVal == 4
ClampArgs ==
    {<<val, min_n, max_n>> :
        val \in 0..MaxVal, min_n \in {None} \cup 0..MaxVal, max_n \in {None} \cup 0..MaxVal}

clamp_works ==
    /\ ~unit.returned
    /\ unit.args # << >>
    /\ unit' = [unit EXCEPT !.returned = TRUE,
                            !.value = clamp(unit.args[1], unit.args[2], unit.args[3])]
    /\ UNCHANGED <<text, options, call, fed, pc, passes, result, j, answer>>

InitClamp ==
    /\ text = << >>
    /\ options = DefaultOptions
    /\ call = "none"
    /\ fed = "none"
    /\ pc = "idle"
    /\ passes = 0
    /\ result = NoState
    /\ j = 1
    /\ answer = NoAnswer
    /\ unit \in {[NoUnit EXCEPT !.args = a] : a \in ClampArgs}

SpecClamp == InitClamp /\ [][clamp_works]_vars

\* SpecIndent: texts whose lines are indented under brackets, some behind a
\* tab, with no cursor and no change
MaxLinesIndent == 3
IndentShapes ==
    {<<"(", "a">>, <<" ", "a">>, <<"a">>, <<"(", "a", ")">>,
     <<"a", TAB, "(", "a">>, <<" ", " ", " ", " ", "a">>, <<" ", "(", "[">>,
     <<")">>}

InitIndent == InitWith(LinedTexts(IndentShapes, MaxLinesIndent), {DefaultOptions})

SpecIndent == InitIndent /\ [][Next]_vars

\* every text made of at most n of the pieces, one after the other
RECURSIVE Concats(_, _)
Concats(pieces, n) ==
    IF n = 0 THEN {<< >>}
    ELSE Concats(pieces, n - 1)
         \cup {p \o t : p \in pieces, t \in Concats(pieces, n - 1)}

\* SpecReader: callers of the Lisp dialects on one-line texts made of the
\* delimiters of block comments, long strings and reader prefixes
MaxPieces == 5
BlockPieces ==
    {<<NUMBER_SIGN, VERTICAL_LINE>>, <<VERTICAL_LINE, NUMBER_SIGN>>,
     <<VERTICAL_LINE>>, <<"(", "a", ")">>}
LongStringPieces == {<<GRAVE>>, <<"a">>, <<BACKSLASH>>}
MaxPrefixPieces == 3
PrefixPieces ==
    {<<NUMBER_SIGN>>, <<VERTICAL_LINE>>, <<BANG>>, <<";">>, <<"(">>,
     <<DOUBLE_QUOTE>>, <<BACKSLASH>>}
PrefixOptions ==
    {DefaultOptions,
     [DefaultOptions EXCEPT !.lisp_block_comments = TRUE],
     [DefaultOptions EXCEPT !.guile_block_comments = TRUE],
     [DefaultOptions EXCEPT !.scheme_sexp_comments = TRUE]}
MaxTokenPieces == 3
TokenPieces == {<<"(">>, <<")">>, <<BACKSLASH>>, <<" ">>, <<"a">>, <<";">>}
TokenOptions ==
    {DefaultOptions, EditOptions(<<0, 0>>, <<None, None>>, << >>),
     EditOptions(<<1, 0>>, <<None, None>>, << >>)}
PlainPieces == {<<")">>, <<"(", "a", ")">>, <<NUMBER_SIGN>>}
MaxPlainPieces == 2

InitReader ==
    \/ InitWith(Concats(BlockPieces, MaxPieces),
                {[DefaultOptions EXCEPT !.lisp_block_comments = TRUE]})
    \/ InitWith(Concats(LongStringPieces, MaxPieces),
                {[DefaultOptions EXCEPT !.janet_long_strings = TRUE]})
    \/ InitWith(Concats(PrefixPieces, MaxPrefixPieces), PrefixOptions)
    \/ InitWith(Concats(TokenPieces, MaxTokenPieces), TokenOptions)
    \/ InitWith(Concats(PlainPieces, MaxPlainPieces), {DefaultOptions})

SpecReader == InitReader /\ [][Next]_vars

\* SpecDedent: an editor that has removed indentation from one line, or from
\* two lines by different amounts, and passes the deletions as its changes
MaxLinesDedent == 2
DedentShapes == {<<"(", "a">>, <<" ", "a">>, <<")">>}
DedentChanges ==
    {<< >>,
     <<Deletion(0, 0, <<" ", " ">>)>>,
     <<Deletion(0, 0, <<" ", " ">>), Deletion(0, 1, <<" ", " ", " ">>)>>}
DedentOptions ==
    {EditOptions(c, <<None, None>>, ch) :
        c \in {<<None, None>>, <<1, 1>>}, ch \in DedentChanges}

\* every change is on a line of the text
InitDedent ==
    /\ InitWith(LinedTexts(DedentShapes, MaxLinesDedent), DedentOptions)
    /\ \A k \in 1..Len(options.changes) :
           options.changes[k].line_no < Len(split_lines(text))

SpecDedent == InitDedent /\ [][Next]_vars

\* ------------------------------------------------------------------------
\* Properties

C2_ModeDuality ==
    (pc = "done" /\ fed = "indent_mode" /\ call = "paren_mode") =>
        (answer.success /\ answer.text = text)

\* C3: every successful Indent-mode pass, plain or smart, with any cursor and
\* change list, ends with an empty paren stack, and its final on_indent at
\* column 0 shifts no line past the end of the text (the shift would index
\* result.lines out of bounds).
C3_IndentEndsBalanced ==
    [][(pc = "finalize_result" /\ result.mode = Indent) =>
          /\ result'.raised # Panic
          /\ result'.raised = NoError => result'.paren_stack = << >>]_vars

\* C4: the error of a returned Answer is never Restart.
C4_RestartNeverEscapes ==
    pc = "done" => answer.error.name # "Restart"

\* a call that restarted has returned an error
C4_RestartedCallFailed ==
    /\ pc = "done"
    /\ passes = 2
    /\ ~answer.success
    /\ answer.error.name = "UnclosedParen"

\* how far a call has come: its passes, then the lines and graphemes its
\* pass has taken, then its return
Span == Len(text) + 2
Progress ==
    passes * ((Len(result.input_lines) + 2) * Span) +
    CASE pc = "process_line" -> Len(result.lines) * Span
      [] pc = "process_char" -> (Len(result.lines) - 1) * Span + j
      [] pc = "finalize_result" -> Len(result.lines) * Span
      [] pc = "match_process_result" -> (Len(result.input_lines) + 1) * Span
      [] OTHER -> (Len(result.input_lines) + 2) * Span

\* C5: every call terminates, after at most two passes over its input: each
\* step of a call moves it forward, Restart is raised in the first pass only,
\* in Indent mode, the pass that follows it runs in Paren mode, and a
\* Paren-mode pass raises no Restart.
C5_AtMostOneRestart ==
    [][/\ passes' <= 2
       /\ result'.raised.name = "Restart" => (result'.mode = Indent /\ passes' = 1)
       /\ passes' = 2 => (result'.mode = Paren /\ call' = "smart_mode")
       /\ pc \in {"process_line", "process_char", "finalize_result",
                  "match_process_result"} => Progress' > Progress]_vars

\* the second pass of a call, entered because the cursor left the bracket it
\* was holding, has returned
C5_SecondPassReturned ==
    /\ pc = "done"
    /\ passes = 2
    /\ answer.success
    /\ options.prev_cursor_x # None
    /\ options.changes = << >>

\* C6: a failed call returns the caller's text unchanged, the cursor given in
\* the options, and the error.
C6_FailureReturnsInput ==
    (pc = "done" /\ ~answer.success) =>
        /\ answer.text = text
        /\ answer.cursor_x = options.cursor_x
        /\ answer.cursor_line = options.cursor_line
        /\ answer.error # NoError
        /\ answer.error = result.raised

\* a call has failed after it had edited a line and moved the cursor
C6_FailedAfterEdits ==
    /\ pc = "done"
    /\ ~answer.success
    /\ Join(result.lines, <<NEWLINE>>) # text
    /\ result.cursor_x # column_from_option(options.cursor_x)

\* the close bracket that process_line takes next is not escaped, stands in
\* code, and does not match the top of the paren stack
UnmatchedCloseNext ==
    /\ pc = "process_char"
    /\ j <= Len(result.input_lines[result.input_line_no + 1])
    /\ result.input_lines[result.input_line_no + 1][j] \in {")", "]", "}"}
    /\ is_in_code(result)
    /\ ~is_escaping(result)
    /\ ~is_valid_close_paren(result.paren_stack,
                             result.input_lines[result.input_line_no + 1][j])

\* the Answer returned carries what the pass raised
Failed(name) ==
    (pc' = "done" /\ result'.raised.name = name) =>
        (~answer'.success /\ answer'.error = result'.raised)

\* C7: in Paren mode without smart, a close bracket in code that is not
\* escaped and does not match the top of the paren stack (or finds it empty)
\* makes the call fail with UnmatchedCloseParen at the bracket's input line
\* and column.
C7_UnmatchedCloseParen ==
    [][/\ (UnmatchedCloseNext /\ result.mode = Paren /\ ~result.smart) =>
              /\ result'.raised =
                     Error("UnmatchedCloseParen", result.input_line_no,
                           StartColumn(result.input_lines[result.input_line_no + 1], j),
                           result.input_line_no,
                           StartColumn(result.input_lines[result.input_line_no + 1], j))
              /\ pc' = "match_process_result"
       /\ (result.mode = Paren /\ ~result.smart) => Failed("UnmatchedCloseParen")]_vars

\* paren_mode has failed at a bracket that does not match the open one
C7_MismatchReported ==
    /\ pc = "done"
    /\ call = "paren_mode"
    /\ result.paren_stack # << >>
    /\ ~answer.success
    /\ answer.error = Error("UnmatchedCloseParen", 1, 1, 1, 1)

\* the UnclosedParen of the innermost opener still open
UnclosedParenAtTop(r) ==
    Error("UnclosedParen", peek(r.paren_stack, 0).input_line_no,
          peek(r.paren_stack, 0).input_x, r.input_line_no, r.input_x)

\* C8 as stated: a Paren-mode pass that reaches the end of its input with an
\* opener on the paren stack fails with UnclosedParen at the innermost opener;
\* an Indent-mode pass never raises UnclosedParen.
C8_UnclosedParenAlways ==
    [][/\ (pc = "finalize_result" /\ result.mode = Paren
              /\ result.paren_stack # << >>) =>
              result'.raised = UnclosedParenAtTop(result)
       /\ Failed("UnclosedParen")
       /\ result'.mode = Indent => result'.raised.name # "UnclosedParen"]_vars

\* C8: a Paren-mode pass that reaches the end of its input with an opener on
\* the paren stack, outside a string, block comment or long string and with no
\* quote danger pending, fails with UnclosedParen at the input line and column
\* of the innermost opener; an Indent-mode pass never raises UnclosedParen.
C8_UnclosedParen ==
    [][/\ (pc = "finalize_result" /\ result.mode = Paren
              /\ result.paren_stack # << >>
              /\ ~result.quote_danger /\ ~is_in_stringish(result)) =>
              result'.raised = UnclosedParenAtTop(result)
       /\ Failed("UnclosedParen")
       /\ result'.mode = Indent => result'.raised.name # "UnclosedParen"]_vars

\* paren_mode has failed with two openers open, at the second
C8_InnermostReported ==
    /\ pc = "done"
    /\ call = "paren_mode"
    /\ Len(result.paren_stack) = 2
    /\ ~answer.success
    /\ answer.error.name = "UnclosedParen"
    /\ answer.error.line_no = 1
    /\ answer.error.x = 0

\* C9: a pass, in either mode, that reaches the end of its input in a string,
\* a Lisp or Guile block comment or a long string fails with UnclosedQuote; one
\* that reaches it in Code or Comment context does not.
C9_UnclosedQuote ==
    [][/\ (pc = "finalize_result"
              /\ result.context.tag \in
                     {"String", "LispBlockCommentPre", "LispBlockComment",
                      "LispBlockCommentPost", "GuileBlockComment",
                      "GuileBlockCommentPost", "JanetLongStringPre",
                      "JanetLongString"}) =>
              result'.raised.name = "UnclosedQuote"
       /\ (pc = "finalize_result" /\ result.context.tag \in {"Code", "Comment"}) =>
              result'.raised.name # "UnclosedQuote"
       /\ Failed("UnclosedQuote")]_vars

\* indent_mode has failed at the end of a text that ends in a Guile block
\* comment
C9_OpenBlockCommentReported ==
    /\ pc = "done"
    /\ call = "indent_mode"
    /\ result.context.tag = "GuileBlockComment"
    /\ ~answer.success
    /\ answer.error.name = "UnclosedQuote"

\* C10: a line that ends with a backslash that is not escaped makes the call
\* fail with EolBackslash when the context is code (Code or reader syntax),
\* and raises no EolBackslash in a comment, string, block comment or long
\* string.
C10_EolBackslash ==
    [][/\ (pc = "process_char"
              /\ j > Len(result.input_lines[result.input_line_no + 1])
              /\ is_escaping(result)) =>
              IF result.context.tag \in {"Code", "LispReaderSyntax"}
              THEN result'.raised.name = "EolBackslash"
              ELSE result'.raised.name # "EolBackslash"
       /\ Failed("EolBackslash")]_vars

\* a call has failed at a backslash that ends a line right after the reader
\* prefix
C10_BackslashAfterPrefixReported ==
    /\ pc = "done"
    /\ result.context.tag = "LispReaderSyntax"
    /\ ~answer.success
    /\ answer.error.name = "EolBackslash"

\* the grapheme that process_line takes next
TakesGrapheme ==
    /\ pc = "process_char"
    /\ j <= Len(result.input_lines[result.input_line_no + 1])
NextGrapheme == result.input_lines[result.input_line_no + 1][j]

\* the characters that open a string under the options of the call
QuoteChars ==
    {DOUBLE_QUOTE}
        \cup (IF result.lisp_vline_symbols_enabled THEN {VERTICAL_LINE} ELSE {})
        \cup (IF result.janet_long_strings_enabled THEN {GRAVE} ELSE {})

\* C11: quote_danger is the parity of the unescaped string-opening quotes met
\* in comment context (each flips it, nothing else changes it).  When it is
\* odd at an indentation point (the grapheme check_indent hands to on_indent)
\* or at the end of the input, the call fails with QuoteDanger; QuoteDanger is
\* raised only when it is odd.
C11_QuoteDanger ==
    [][/\ (TakesGrapheme /\ result'.raised = NoError) =>
              result'.quote_danger =
                  IF /\ result.context.tag = "Comment"
                     /\ ~is_escaping(result)
                     /\ NextGrapheme \in QuoteChars
                  THEN ~result.quote_danger
                  ELSE result.quote_danger
       /\ (pc \in {"process_line", "process_char", "finalize_result"}
              /\ ~TakesGrapheme) =>
              result'.quote_danger = result.quote_danger
       /\ (TakesGrapheme /\ result.tracking_indent /\ result.quote_danger
              /\ NextGrapheme \notin {")", "]", "}", result.comment_char,
                                      NEWLINE, BLANK_SPACE, TAB}) =>
              result'.raised.name = "QuoteDanger"
       /\ (pc = "finalize_result" /\ result.quote_danger) =>
              result'.raised.name = "QuoteDanger"
       /\ (pc \in {"process_line", "process_char", "finalize_result"}
              /\ result'.raised.name = "QuoteDanger") => result.quote_danger
       /\ Failed("QuoteDanger")]_vars

\* a call has failed at the indentation point of the line after a comment
\* with one quote
C11_DangerAtIndentationPoint ==
    /\ pc = "done"
    /\ ~answer.success
    /\ answer.error.name = "QuoteDanger"
    /\ result.line_no = 1
    /\ result.indent_x = 0
    /\ ~result.tracking_indent

\* the line that process_line is taking, as it stands in the output
OutputLine(r) == r.lines[r.line_no + 1]

\* process_line has taken the last grapheme of its line
EndsLine ==
    /\ pc = "process_char"
    /\ j > Len(result.input_lines[result.input_line_no + 1])

\* in Indent mode without smart, the first grapheme after the indentation of
\* a line that starts in code is a close bracket: it is deleted from the
\* output line, where it stood at column x
LeadingCloseDeleted ==
    (TakesGrapheme /\ result.mode = Indent /\ ~result.smart
        /\ result.tracking_indent /\ result.context.tag = "Code"
        /\ NextGrapheme \in {")", "]", "}"}) =>
        /\ result'.raised = NoError
        /\ result'.x = result.x
        /\ OutputLine(result') =
               SubSeq(OutputLine(result), 1, result.x)
                   \o SubSeq(OutputLine(result), result.x + 2,
                             Len(OutputLine(result)))
        /\ cache_contains(result', "LeadingCloseParen")

\* C12 as stated: in Indent mode without smart a leading close bracket is
\* deleted from the output line, and at the end of its line the call fails
\* with LeadingCloseParen exactly when a paren trail was started on that line;
\* otherwise the line is accepted.
C12_LeadingCloseParenExactly ==
    [][/\ LeadingCloseDeleted
       /\ (EndsLine /\ result.mode = Indent /\ ~result.smart
              /\ cache_contains(result, "LeadingCloseParen")) =>
              IF result.paren_trail.line_no = result.line_no
              THEN result'.raised.name = "LeadingCloseParen"
              ELSE result'.raised = NoError
       /\ Failed("LeadingCloseParen")]_vars

\* C12: in Indent mode without smart a leading close bracket is deleted from
\* the output line.  At the end of its line, when a paren trail was started on
\* that line, the call fails: with LeadingCloseParen, unless the line ends in
\* a backslash in code (EolBackslash) or holds an unmatched close bracket left
\* of the paren trail (UnmatchedCloseParen), which are reported first.  When
\* no paren trail was started on the line no LeadingCloseParen is raised, and
\* the line is accepted unless it ends in such a backslash.
C12_LeadingCloseParen ==
    [][/\ LeadingCloseDeleted
       /\ (EndsLine /\ result.mode = Indent /\ ~result.smart
              /\ cache_contains(result, "LeadingCloseParen")) =>
              IF is_escaping(result) /\ is_in_code(result)
              THEN result'.raised.name = "EolBackslash"
              ELSE IF result.paren_trail.line_no # result.line_no
              THEN result'.raised = NoError
              ELSE IF /\ cache_contains(result, "UnmatchedCloseParen")
                      /\ result.error_pos_cache["UnmatchedCloseParen"].x
                             < result.paren_trail.start_x
              THEN result'.raised.name = "UnmatchedCloseParen"
              ELSE result'.raised.name = "LeadingCloseParen"
       /\ (EndsLine /\ result'.raised.name = "LeadingCloseParen") =>
              /\ cache_contains(result, "LeadingCloseParen")
              /\ result.paren_trail.line_no = result.line_no
       /\ Failed("LeadingCloseParen")]_vars

\* indent_mode has accepted a text whose first grapheme is a close bracket,
\* and returned it without that bracket
C12_LeadingCloseAccepted ==
    /\ pc = "done"
    /\ call = "indent_mode"
    /\ fed = "none"
    /\ answer.success
    /\ Len(text) > 1
    /\ text[1] = ")"
    /\ answer.text = Tail(text)

\* a ParenTrail lies on its output line: brackets and spaces only between
\* start_x and end_x
TrailOfClosers(t, lines) ==
    /\ t.start_x <= t.end_x
    /\ t.line_no + 1 \in 1..Len(lines)
    /\ \A i \in 1..Len(lines[t.line_no + 1]) :
           (/\ t.start_x <= StartColumn(lines[t.line_no + 1], i)
            /\ StartColumn(lines[t.line_no + 1], i) < t.end_x) =>
               lines[t.line_no + 1][i] \in {")", "]", "}", BLANK_SPACE}

\* C13: every ParenTrail of a successful Answer has start_x <= end_x, holds
\* only close brackets and spaces between start_x and end_x on its output
\* line, and ends where that line ends.
C13_ParenTrailShape ==
    (pc = "done" /\ answer.success) =>
        \A k \in 1..Len(answer.paren_trails) :
            /\ TrailOfClosers(answer.paren_trails[k], result.lines)
            /\ answer.paren_trails[k].end_x =
                   SumWidth(result.lines[answer.paren_trails[k].line_no + 1])

\* the open bracket of an opener record (or of a tab stop) sits in the output
\* at the record's line and display column
SitsAt(o, lines) ==
    /\ o.line_no + 1 \in 1..Len(lines)
    /\ \E i \in 1..Len(lines[o.line_no + 1]) :
           /\ StartColumn(lines[o.line_no + 1], i) = o.x
           /\ lines[o.line_no + 1][i] = o.ch

\* C14: column stability.  While a call runs without error, and in its
\* successful Answer, every opener on the paren stack, in the paren trail (or
\* its clamped part) and every tab stop has the line_no and x at which its
\* open bracket sits in the output.
C14_ColumnStability ==
    (/\ pc \in {"process_line", "process_char", "finalize_result",
                "match_process_result", "done"}
     /\ result.raised = NoError) =>
        /\ \A k \in 1..Len(result.paren_stack) :
               SitsAt(result.paren_stack[k], result.lines)
        /\ \A k \in 1..Len(result.paren_trail.openers) :
               SitsAt(result.paren_trail.openers[k], result.lines)
        /\ \A k \in 1..Len(result.paren_trail.clamped.openers) :
               SitsAt(result.paren_trail.clamped.openers[k], result.lines)
        /\ \A k \in 1..Len(result.tab_stops) :
               SitsAt(result.tab_stops[k], result.lines)
        /\ pc = "done" => (answer.success /\ answer.tab_stops = result.tab_stops)

\* a call has succeeded and returned a tab stop, after it had moved an open
\* bracket by correcting the indentation of its line
C14_MovedBracketRecorded ==
    /\ pc = "done"
    /\ answer.success
    /\ answer.tab_stops # << >>
    /\ \E k \in 1..Len(result.paren_trail.openers) :
           /\ result.paren_trail.openers[k].x # result.paren_trail.openers[k].input_x
           /\ result.paren_trail.openers[k].x > 0


\* the graphemes of a line from display column x on
RECURSIVE FromColumn(_, _)
FromColumn(line, x) ==
    IF x <= 0 \/ line = << >> THEN line
    ELSE FromColumn(Tail(line), x - Width(Head(line)))

\* the graphemes no edit of the engine inserts, deletes or replaces: all
\* but close brackets, spaces and tabs
Kept(g) == g \notin {")", "]", "}", BLANK_SPACE, TAB}

\* how many kept graphemes of a line lie left of display column x
RECURSIVE KeptLeft(_, _)
KeptLeft(line, x) ==
    IF x <= 0 \/ line = << >> THEN 0
    ELSE (IF Kept(Head(line)) THEN 1 ELSE 0)
         + KeptLeft(Tail(line), x - Width(Head(line)))

\* line n of the text as edited so far
LineOf(r, n) ==
    IF n < 0 THEN << >>
    ELSE IF n < Len(r.lines) THEN r.lines[n + 1]
    ELSE IF n < Len(r.input_lines) THEN r.input_lines[n + 1]
    ELSE << >>

\* C15 (first part): the returned cursor_line is the input cursor_line
C15_CursorLine ==
    /\ (pc \in {"process_line", "process_char", "finalize_result",
                "match_process_result", "done"}) =>
           line_number_to_option(result.cursor_line) = options.cursor_line
    /\ pc = "done" => answer.cursor_line = options.cursor_line

\* C15 (second part): a step changes cursor_x only along with the
\* cursor's own line, by the change of that line's display width, and leaves
\* the line right of the cursor as it was
C15_CursorShift ==
    [][(/\ pc \in {"process_line", "process_char", "finalize_result"}
        /\ result'.raised # Panic
        /\ result'.cursor_x # result.cursor_x) =>
           /\ LineOf(result', result.cursor_line) # LineOf(result, result.cursor_line)
           /\ result'.cursor_x - result.cursor_x
                  = SumWidth(LineOf(result', result.cursor_line))
                    - SumWidth(LineOf(result, result.cursor_line))
           /\ FromColumn(LineOf(result', result.cursor_line), result'.cursor_x)
                  = FromColumn(LineOf(result, result.cursor_line), result.cursor_x)]_vars

\* C15 (third part): on success the cursor sits before the grapheme it sat
\* before in the input, when that grapheme is a kept one
C15_SameGrapheme ==
    (/\ pc = "done"
     /\ answer.success
     /\ options.cursor_x # None
     /\ options.cursor_line # None
     /\ options.cursor_line < Len(split_lines(text))
     /\ FromColumn(split_lines(text)[options.cursor_line + 1], options.cursor_x) # << >>
     /\ Kept(Head(FromColumn(split_lines(text)[options.cursor_line + 1],
                             options.cursor_x)))) =>
        /\ FromColumn(result.lines[options.cursor_line + 1], answer.cursor_x) # << >>
        /\ Head(FromColumn(result.lines[options.cursor_line + 1], answer.cursor_x))
               = Head(FromColumn(split_lines(text)[options.cursor_line + 1],
                                 options.cursor_x))
        /\ KeptLeft(result.lines[options.cursor_line + 1], answer.cursor_x)
               = KeptLeft(split_lines(text)[options.cursor_line + 1], options.cursor_x)


\* C16: with options.selection_start_line present smart_mode runs with smart
\* disabled, in Indent mode, in one pass without Restart, and returns the
\* text, success and error that indent_mode returns on the same text and
\* options (and panics where indent_mode panics)
C16_SelectionDisablesSmart ==
    (call = "smart_mode" /\ options.selection_start_line # None) =>
        /\ ~result.smart
        /\ result.mode = Indent
        /\ passes = 1
        /\ result.raised.name # "Restart"
        /\ pc = "done" =>
               /\ answer.text = process_text(text, split_lines(text), options, Indent, FALSE).text
               /\ answer.success = process_text(text, split_lines(text), options, Indent, FALSE).success
               /\ answer.error = process_text(text, split_lines(text), options, Indent, FALSE).error
        /\ pc = "panicked" =>
               process_text_result(text, split_lines(text), options, Indent, FALSE).raised = Panic

\* smart_mode has answered, with a selection, on a text with a line that
\* starts with a close bracket
C16_SelectionAnswered ==
    /\ pc = "done"
    /\ call = "smart_mode"
    /\ options.selection_start_line # None
    /\ answer.success
    /\ \E k \in 1..Len(result.input_lines) :
           /\ result.input_lines[k] # << >>
           /\ result.input_lines[k][1] = ")"


\* C18 as stated: clamp returns min when given and min >= val, otherwise max
\* when given and max <= val, otherwise val; with both bounds given and
\* min <= max the result lies in [min, max]; a missing bound leaves its side
\* unbounded; and when min > max the lower bound wins
C18_ClampLowerBoundWins ==
    unit.returned =>
        LET val == unit.args[1]
            min_n == unit.args[2]
            max_n == unit.args[3]
        IN /\ unit.value = IF min_n # None /\ min_n >= val THEN min_n
                           ELSE IF max_n # None /\ max_n <= val THEN max_n
                           ELSE val
           /\ (min_n # None /\ max_n # None /\ min_n <= max_n) =>
                  (min_n <= unit.value /\ unit.value <= max_n)
           /\ (min_n = None /\ (max_n = None \/ val <= max_n)) => unit.value = val
           /\ (max_n = None /\ (min_n = None \/ val >= min_n)) => unit.value = val
           /\ (min_n # None /\ max_n # None /\ min_n > max_n) => unit.value = min_n

\* C18 as amended: the same, but when min > max the lower bound wins only
\* for val <= min; a val above min is clamped to max
C18_Clamp ==
    unit.returned =>
        LET val == unit.args[1]
            min_n == unit.args[2]
            max_n == unit.args[3]
        IN /\ (min_n # None /\ min_n >= val) => unit.value = min_n
           /\ (~(min_n # None /\ min_n >= val) /\ max_n # None /\ max_n <= val) =>
                  unit.value = max_n
           /\ (~(min_n # None /\ min_n >= val) /\ ~(max_n # None /\ max_n <= val)) =>
                  unit.value = val
           /\ (min_n # None /\ max_n # None /\ min_n <= max_n) =>
                  (min_n <= unit.value /\ unit.value <= max_n)
           /\ (min_n = None /\ (max_n = None \/ val <= max_n)) => unit.value = val
           /\ (max_n = None /\ (min_n = None \/ val >= min_n)) => unit.value = val
           /\ (min_n # None /\ max_n # None /\ min_n > max_n) =>
                  unit.value = IF val <= min_n THEN min_n ELSE max_n

\* clamp has returned for a val above a min that is above the max
C18_ClampedAboveCrossedBounds ==
    /\ unit.returned
    /\ unit.args[2] # None
    /\ unit.args[3] # None
    /\ unit.args[2] > unit.args[3]
    /\ unit.args[1] > unit.args[2]
    /\ unit.value = unit.args[3]


\* the graphemes of a line left of display column x
RECURSIVE UpToColumn(_, _)
UpToColumn(line, x) ==
    IF x <= 0 \/ line = << >> THEN << >>
    ELSE <<Head(line)>> \o UpToColumn(Tail(line), x - Width(Head(line)))

\* the contexts inside a string, a comment, a block comment or a long string
InsideContexts ==
    {"Comment", "String", "LispBlockComment", "LispBlockCommentPost",
     "GuileBlockComment", "GuileBlockCommentPost", "JanetLongString"}

\* C17: process_char replaces a tab met unescaped in Code context by two
\* spaces in the output line, where it moves x two columns on and charges
\* the width difference to indent_delta; it leaves a tab inside a string, a
\* comment, a block comment or a long string as it is; after every grapheme
\* the output line from column x on is the rest of the input line, x is the
\* input column plus indent_delta (when the call has no change list, whose
\* deltas indent_delta takes too), and an arg_x it sets is the output column
\* of the grapheme it has just taken
C17_TabToTwoSpaces ==
    [][(TakesGrapheme /\ result'.raised = NoError) =>
          /\ (NextGrapheme = TAB /\ result.context.tag = "Code" /\ ~is_escaping(result)) =>
                 /\ OutputLine(result') =
                        UpToColumn(OutputLine(result), result.x)
                        \o <<BLANK_SPACE, BLANK_SPACE>>
                        \o FromColumn(OutputLine(result), result.x + Width(TAB))
                 /\ result'.x = result.x + 2
                 /\ result'.indent_delta = result.indent_delta + 2 - Width(TAB)
          /\ (NextGrapheme = TAB /\ result.context.tag \in InsideContexts) =>
                 /\ OutputLine(result') = OutputLine(result)
                 /\ Head(FromColumn(OutputLine(result'), result.x)) = TAB
                 /\ result'.x = result.x + Width(TAB)
                 /\ result'.indent_delta = result.indent_delta
          /\ FromColumn(OutputLine(result'), result'.x) =
                 SubSeq(result.input_lines[result.input_line_no + 1], j + 1,
                        Len(result.input_lines[result.input_line_no + 1]))
          /\ options.changes = << >> =>
                 result'.x = StartColumn(result.input_lines[result.input_line_no + 1], j + 1)
                              + result'.indent_delta
          /\ (/\ Len(result'.paren_stack) = Len(result.paren_stack)
              /\ result.paren_stack # << >>
              /\ peek(result'.paren_stack, 0).arg_x # peek(result.paren_stack, 0).arg_x
              /\ peek(result'.paren_stack, 0) =
                     [peek(result.paren_stack, 0)
                         EXCEPT !.arg_x = peek(result'.paren_stack, 0).arg_x]) =>
                 /\ peek(result'.paren_stack, 0).arg_x = StartColumn(result.input_lines[result.input_line_no + 1], j) + result'.indent_delta
                 /\ Head(FromColumn(OutputLine(result'), peek(result'.paren_stack, 0).arg_x))
                        = NextGrapheme]_vars

\* indent_mode has answered `(a<TAB>a' with `(a  a)', the opener's arg_x at
\* the second `a'
C17_TabInCodeReplaced ==
    /\ pc = "done"
    /\ call = "indent_mode"
    /\ text = <<"(", "a", TAB, "a">>
    /\ answer.success
    /\ answer.text = <<"(", "a", BLANK_SPACE, BLANK_SPACE, "a", ")">>
    /\ Len(result.paren_trail.openers) = 1
    /\ result.paren_trail.openers[1].arg_x = 4


BracketChars == {"(", ")", "[", "]", "{", "}"}

\* the grapheme that process_line takes next is taken outside code, or
\* escaped by the backslash before it
OutsideCode ==
    \/ result.context.tag \notin {"Code", "LispReaderSyntax"}
    \/ is_escaping(result)

\* the opener that process_line pushes for the grapheme it takes next is on
\* the stack
Pushed(stack) ==
    \E k \in 1..Len(stack) :
        /\ stack[k].input_line_no = result.input_line_no
        /\ stack[k].input_x = StartColumn(result.input_lines[result.input_line_no + 1], j)

\* C19: a bracket taken inside a comment, a string, a block comment or a
\* long string, or escaped by a backslash, leaves the paren stack and the
\* openers of the paren trail as they are and stays in the output line where
\* it was; and an opener comes onto the stack only for an unescaped open
\* bracket taken in code
C19_BracketsOnlyInCode ==
    [][(TakesGrapheme /\ result'.raised = NoError) =>
          /\ (NextGrapheme \in BracketChars /\ OutsideCode) =>
                 /\ result'.paren_stack = result.paren_stack
                 /\ result'.paren_trail.openers = result.paren_trail.openers
                 /\ OutputLine(result') = OutputLine(result)
                 /\ Head(FromColumn(OutputLine(result'), result.x)) = NextGrapheme
                 /\ result'.x = result.x + Width(NextGrapheme)
          /\ (Pushed(result'.paren_stack) /\ ~Pushed(result.paren_stack)) =>
                 /\ NextGrapheme \in {"(", "[", "{"}
                 /\ ~OutsideCode
                 /\ peek(result'.paren_stack, 0).ch = NextGrapheme]_vars


\* a State with the escape of the grapheme before forgotten
Unescaped(r) == [r EXCEPT !.escape = IF @ = Escaped THEN Normal ELSE @]

\* C20: in every context a backslash that is not escaped itself makes the
\* next grapheme (or the end of the line) the escaped one; the escaped
\* grapheme leaves the context, the paren stack, the openers of the paren
\* trail and quote_danger as they are and stays in the output; and the
\* grapheme after it is taken as if nothing had been escaped
C20_EscapeHandling ==
    [][/\ (TakesGrapheme /\ result'.raised = NoError) =>
             /\ (~is_escaping(result) /\ NextGrapheme = BACKSLASH) =>
                    is_escaping(result')
             /\ is_escaping(result) =>
                    /\ is_escaped(result')
                    /\ result'.context = result.context
                    /\ result'.paren_stack = result.paren_stack
                    /\ result'.paren_trail.openers = result.paren_trail.openers
                    /\ result'.quote_danger = result.quote_danger
                    /\ OutputLine(result') = OutputLine(result)
                    /\ result'.x = result.x + Width(NextGrapheme)
             /\ (~is_escaping(result) /\ NextGrapheme # BACKSLASH) =>
                    ~is_escaping(result')
             /\ is_escaped(result) =>
                    Unescaped(result') =
                        Unescaped(process_line_grapheme([result EXCEPT !.escape = Normal], j))
       /\ (EndsLine /\ result'.raised = NoError) =>
             /\ is_escaping(result) =>
                    /\ is_escaped(result')
                    /\ result'.context = result.context
                    /\ result'.quote_danger = result.quote_danger
             /\ ~is_escaping(result) => ~is_escaping(result')
             /\ is_escaped(result) =>
                    Unescaped(result') =
                        Unescaped(process_line_end([result EXCEPT !.escape = Normal]))]_vars

\* indent_mode has answered `\\(' with `\\()': the second backslash was the
\* escaped grapheme and the bracket an opener
C20_BracketAfterEscapedBackslash ==
    /\ pc = "done"
    /\ call = "indent_mode"
    /\ text = <<BACKSLASH, BACKSLASH, "(">>
    /\ answer.success
    /\ answer.text = <<BACKSLASH, BACKSLASH, "(", ")">>


\* inside a Lisp block comment
InBlockComment(r) ==
    r.context.tag \in {"LispBlockComment", "LispBlockCommentPre", "LispBlockCommentPost"}

\* the grapheme that process_line takes next and the one before it on the
\* line make the delimiter <<first, second>>, whose first grapheme belongs to
\* no delimiter before it and is not escaped
TakesDelimiter(first, second) ==
    /\ TakesGrapheme
    /\ ~is_escaping(result)
    /\ j >= 2
    /\ NextGrapheme = second
    /\ result.input_lines[result.input_line_no + 1][j - 1] = first
    /\ j >= 3 => result.input_lines[result.input_line_no + 1][j - 2]
                     \notin {NUMBER_SIGN, VERTICAL_LINE, BACKSLASH} \ {first}

\* C21: with lisp_block_comments enabled, `#|' taken in code opens a block
\* comment of depth 1, each `#|' inside raises the depth by one, each `|#'
\* lowers it by one and gives the context back to Code when it was 1, and
\* no other grapheme changes the depth or leaves the comment
C21_BlockCommentsNest ==
    [][(/\ TakesGrapheme
        /\ result.lisp_block_comments_enabled
        /\ result'.raised = NoError) =>
          /\ (result.context.tag = "LispReaderSyntax" /\ NextGrapheme = VERTICAL_LINE) =>
                 result'.context = LispBlockComment(1)
          /\ (InBlockComment(result) /\ TakesDelimiter(NUMBER_SIGN, VERTICAL_LINE)) =>
                 /\ InBlockComment(result')
                 /\ result'.context.depth = result.context.depth + 1
          /\ (InBlockComment(result) /\ TakesDelimiter(VERTICAL_LINE, NUMBER_SIGN)) =>
                 IF result.context.depth = 1
                 THEN result'.context = Code
                 ELSE /\ InBlockComment(result')
                      /\ result'.context.depth = result.context.depth - 1
          /\ (/\ InBlockComment(result)
              /\ \/ NextGrapheme \notin {NUMBER_SIGN, VERTICAL_LINE}
                 \/ j = 1
                 \/ /\ j >= 2
                    /\ NextGrapheme = VERTICAL_LINE
                    /\ result.input_lines[result.input_line_no + 1][j - 1] # NUMBER_SIGN
                 \/ /\ j >= 2
                    /\ NextGrapheme = NUMBER_SIGN
                    /\ result.input_lines[result.input_line_no + 1][j - 1] # VERTICAL_LINE) =>
                 /\ InBlockComment(result')
                 /\ result'.context.depth = result.context.depth]_vars


\* C22: with janet_long_strings enabled, a backtick in code starts the
\* opening run, each backtick right after it makes the run one longer and
\* the first other grapheme starts the string; inside the string each
\* backtick raises the close count by one, giving the context back to Code
\* when it reaches the length of the opening run, and any other grapheme
\* resets the close count to 0
C22_LongStringRuns ==
    [][(/\ TakesGrapheme
        /\ result.janet_long_strings_enabled
        /\ result'.raised = NoError) =>
          /\ (result.context.tag = "Code" /\ ~is_escaping(result) /\ NextGrapheme = GRAVE) =>
                 result'.context = JanetLongStringPre(1)
          /\ result.context.tag = "JanetLongStringPre" =>
                 result'.context =
                     IF NextGrapheme = GRAVE
                     THEN JanetLongStringPre(result.context.open_delim_len + 1)
                     ELSE JanetLongString(result.context.open_delim_len, 0)
          /\ result.context.tag = "JanetLongString" =>
                 result'.context =
                     IF NextGrapheme # GRAVE
                     THEN JanetLongString(result.context.open_delim_len, 0)
                     ELSE IF result.context.close_delim_len + 1 = result.context.open_delim_len
                     THEN Code
                     ELSE JanetLongString(result.context.open_delim_len,
                                          result.context.close_delim_len + 1)]_vars


\* the grapheme that process_line takes next starts a comment after `#'
\* under the options of the call
StartsReaderComment ==
    \/ NextGrapheme = VERTICAL_LINE /\ result.lisp_block_comments_enabled
    \/ NextGrapheme = BANG /\ result.guile_block_comments_enabled
    \/ NextGrapheme = ";" /\ result.scheme_sexp_comments_enabled

\* C23: after `#' in code, `|', `!' and `;' start a Lisp block comment, a
\* Guile block comment or an s-expression comment when their own option is
\* enabled; any other grapheme is processed exactly as in Code; and with
\* none of the three options enabled the context is never that of a reader
\* prefix or of a block comment
C23_ReaderPrefix ==
    [][/\ (TakesGrapheme /\ result.context.tag = "LispReaderSyntax") =>
             /\ result.lisp_reader_syntax_enabled
             /\ (StartsReaderComment /\ result'.raised = NoError) =>
                    result'.context =
                        CASE NextGrapheme = VERTICAL_LINE -> LispBlockComment(1)
                          [] NextGrapheme = BANG -> GuileBlockComment
                          [] OTHER -> Code
             /\ ~StartsReaderComment =>
                    result' = process_line_grapheme([result EXCEPT !.context = Code], j)
       /\ (~result'.lisp_reader_syntax_enabled /\ pc' \notin {"idle"}) =>
             result'.context.tag \in {"Code", "Comment", "String",
                                      "JanetLongStringPre", "JanetLongString"}]_vars


\* the step from r to q has moved the start of the paren trail to the right
\* edge of the grapheme it committed
RestartedAtRightEdge(r, q) ==
    /\ q.paren_trail.line_no = q.line_no
    /\ q.paren_trail.start_x = q.x
    /\ <<q.paren_trail.line_no, q.paren_trail.start_x>>
           # <<r.paren_trail.line_no, r.paren_trail.start_x>>

\* the close bracket just committed was held by the cursor
\* (in_code_on_matched_close_paren under check_cursor_holding)
HeldCloseParen(r) ==
    /\ rust_is_close_paren(r.ch)
    /\ ~is_escaped(r)
    /\ r.paren_trail.clamped.start_x # None
    /\ r.paren_trail.clamped.end_x = r.x
    /\ r.paren_trail.openers = << >>

UnmatchedCloseDeleted ==
    (UnmatchedCloseNext /\ result.mode = Indent /\ ~result.tracking_indent) =>
        /\ result'.raised = NoError
        /\ result'.x = result.x
        /\ OutputLine(result') =
               SubSeq(OutputLine(result), 1, result.x)
                   \o SubSeq(OutputLine(result), result.x + 2,
                             Len(OutputLine(result)))
        /\ cache_contains(result', "UnmatchedCloseParen")
        /\ result'.error_pos_cache["UnmatchedCloseParen"].x =
               IF cache_contains(result, "UnmatchedCloseParen")
               THEN result.error_pos_cache["UnmatchedCloseParen"].x
               ELSE result.x

\* at the end of the line, the first unmatched close bracket of the line lies
\* left of the start of the paren trail
UnmatchedLeftOfTrail(r) ==
    /\ cache_contains(r, "UnmatchedCloseParen")
    /\ r.error_pos_cache["UnmatchedCloseParen"].x < r.paren_trail.start_x

\* C25 as stated: in Indent mode an unmatched close bracket in code is always
\* deleted from the output line, and the call fails with UnmatchedCloseParen
\* exactly when, at the end of that line, the first unmatched close bracket of
\* the line lies left of the start of the paren trail
C25_UnmatchedCloseParenExactly ==
    [][/\ UnmatchedCloseDeleted
       /\ (EndsLine /\ result.mode = Indent) =>
              (result'.raised.name = "UnmatchedCloseParen"
                   <=> UnmatchedLeftOfTrail(result))
       /\ Failed("UnmatchedCloseParen")]_vars

\* C25 as amended: in Indent mode an unmatched close bracket in code is always
\* deleted from the output line.  At the end of that line, unless the line
\* ends in a backslash in code (EolBackslash is reported first), the call
\* fails with UnmatchedCloseParen exactly when the first unmatched close
\* bracket of the line lies left of the start of the paren trail; one that
\* lies inside the final paren trail is removed without error.
C25_UnmatchedCloseParen ==
    [][/\ UnmatchedCloseDeleted
       /\ (EndsLine /\ result.mode = Indent) =>
              IF is_escaping(result) /\ is_in_code(result)
              THEN result'.raised.name = "EolBackslash"
              ELSE (result'.raised.name = "UnmatchedCloseParen"
                        <=> UnmatchedLeftOfTrail(result))
       /\ Failed("UnmatchedCloseParen")]_vars

\* indent_mode has met an unmatched close bracket with a closable grapheme
\* after it and failed with UnmatchedCloseParen at the bracket
C25_UnmatchedCloseReported ==
    /\ pc = "done"
    /\ call = "indent_mode"
    /\ ~answer.success
    /\ answer.error.name = "UnmatchedCloseParen"
    /\ text[answer.error.x + 1] = ")"
    /\ answer.error.x > 0


\* process_line takes the grapheme at the indentation point of its line
IndentationPoint ==
    /\ TakesGrapheme
    /\ result.tracking_indent
    /\ NextGrapheme \notin {")", "]", "}", ";", NEWLINE, BLANK_SPACE, TAB}

\* the close brackets of the openers above the first n of a stack, innermost
\* first
ClosersAbove(stack, n) ==
    [i \in 1..(Len(stack) - n) |-> match_paren(stack[Len(stack) + 1 - i].ch)]

\* the first n openers of both stacks are the same brackets at the same place
SamePlace(before, after, n) ==
    /\ Len(after) >= n
    /\ \A i \in 1..n :
           /\ after[i].ch = before[i].ch
           /\ after[i].line_no = before[i].line_no
           /\ after[i].x = before[i].x

OnIndentStep ==
    /\ TakesGrapheme
    /\ result.tracking_indent
    /\ ~result'.tracking_indent
    /\ NextGrapheme # ";"
    /\ result'.raised = NoError

LeadingMatchedClose ==
    /\ TakesGrapheme
    /\ result.mode = Paren
    /\ result.tracking_indent
    /\ NextGrapheme \in {")", "]", "}"}
    /\ is_valid_close_paren(result.paren_stack, NextGrapheme)
    /\ result'.raised = NoError

\* the bracket is appended to the paren trail, on the line that holds it, and
\* removed from the current line
AppendedToTrail ==
    LET trail == result.paren_trail
    IN /\ trail.line_no # None
       /\ trail.line_no < result.line_no
       /\ LineOf(result', trail.line_no) =
              UpToColumn(LineOf(result, trail.line_no), trail.end_x)
                  \o <<NextGrapheme>>
                  \o FromColumn(LineOf(result, trail.line_no), trail.end_x)
       /\ result'.x = result.x
       /\ OutputLine(result') =
              SubSeq(OutputLine(result), 1, result.x)
                  \o SubSeq(OutputLine(result), result.x + 2,
                            Len(OutputLine(result)))
       /\ result'.tracking_indent
       /\ Len(result'.paren_stack) = Len(result.paren_stack) - 1
       /\ SamePlace(result.paren_stack, result'.paren_stack,
                    Len(result.paren_stack) - 1)

\* the bracket is the indentation point of its line and stays there, the
\* lines before it as they were
StaysAsIndentationPoint ==
    /\ ~result'.tracking_indent
    /\ result'.x = result'.indent_x + 1
    /\ OutputLine(result') =
           repeat_string(BLANK_SPACE, result'.indent_x)
               \o FromColumn(OutputLine(result), result.x)
    /\ result'.paren_trail.line_no = result.line_no
    /\ result'.paren_trail.start_x = result.x
    /\ \A n \in 0..(result.line_no - 1) : LineOf(result', n) = LineOf(result, n)
    /\ Len(result'.paren_stack) = Len(result.paren_stack) - 1

\* C28 as stated: Paren mode, leading close bracket that matches the top of
\* the stack: if the cursor is on or right of the close bracket the bracket
\* is appended to the paren trail of the previous line and removed from the
\* current line; otherwise it stays on its line as a normal indentation point
C28_AppendedWhenCursorOnOrRight ==
    [][LeadingMatchedClose =>
          IF /\ result.cursor_line = result.line_no
             /\ result.cursor_x # None
             /\ result.cursor_x >= result.x
          THEN AppendedToTrail
          ELSE StaysAsIndentationPoint]_vars

\* C28 as amended: Paren mode, leading close bracket that matches the top of
\* the stack: if the cursor is on the bracket's line, on or left of the
\* bracket, the bracket stays on its line as a normal indentation point;
\* otherwise (no cursor, a cursor on another line or right of the bracket) it
\* is appended to the paren trail of the most recent line holding one and
\* removed from the current line
C28_LeadingCloseParenInParenMode ==
    [][LeadingMatchedClose =>
          IF /\ result.cursor_line = result.line_no
             /\ result.cursor_x # None
             /\ result.cursor_x <= result.x
          THEN StaysAsIndentationPoint
          ELSE AppendedToTrail]_vars

\* paren_mode, with the cursor before the bracket of the second line of
\* ( / _), has left the bracket on its line
C28_LeadingCloseKept ==
    /\ pc = "done"
    /\ call = "paren_mode"
    /\ text = <<"(", NEWLINE, " ", ")">>
    /\ options.cursor_line = 1
    /\ options.cursor_x = 0
    /\ answer.success
    /\ answer.text = text


\* a pass of the engine is under way
InPass == pc \in {"process_line", "process_char", "finalize_result"}

\* line is edited into edited between the columns start_x and end_x only,
\* and holds close brackets and spaces there
EditedWithin(line, edited, start_x, end_x) ==
    LET left == UpToColumn(line, start_x)
        right == FromColumn(line, end_x)
    IN /\ Len(edited) >= Len(left) + Len(right)
       /\ SubSeq(edited, 1, Len(left)) = left
       /\ SubSeq(edited, Len(edited) - Len(right) + 1, Len(edited)) = right
       /\ \A i \in (Len(left) + 1)..(Len(edited) - Len(right)) :
              edited[i] \in {")", "]", "}", BLANK_SPACE}

\* C29 as stated: while line L is being processed, and during finalization,
\* text edits are applied only to line L: the output text of every other
\* line stays as it is
C29_OnlyCurrentLineEdited ==
    [][(InPass /\ result'.raised = NoError) =>
          \A n \in 0..(Len(result.lines) - 1) :
              n # result.line_no => LineOf(result', n) = LineOf(result, n)]_vars

\* C29 as amended: while line L is being processed, and during finalization,
\* text edits are applied only to line L and to the paren trail of the most
\* recent line holding one, whose columns from start_x to end_x are replaced
\* by close brackets: the rest of that line, and every other line before L,
\* stays as it is
C29_OnlyTrailEditedBefore ==
    [][(InPass /\ result'.raised = NoError) =>
          \A n \in 0..(Len(result.lines) - 1) :
              n # result.line_no =>
                  IF n = result.paren_trail.line_no
                  THEN EditedWithin(LineOf(result, n), LineOf(result', n),
                                    result.paren_trail.start_x,
                                    result.paren_trail.end_x)
                  ELSE LineOf(result', n) = LineOf(result, n)]_vars

\* while the second line is processed, the first line differs from the
\* input in its paren trail
C29_EarlierTrailEdited ==
    /\ pc = "process_char"
    /\ result.raised = NoError
    /\ result.line_no = 1
    /\ result.paren_trail.line_no = 0
    /\ result.lines[1] # result.input_lines[1]


\* process_line takes, past the indentation of its line, a close bracket in
\* code that matches the top of the stack
MatchedCloseNext ==
    /\ TakesGrapheme
    /\ NextGrapheme \in {")", "]", "}"}
    /\ is_in_code(result)
    /\ ~is_escaping(result)
    /\ ~result.tracking_indent
    /\ is_valid_close_paren(result.paren_stack, NextGrapheme)

\* the cursor is on the line of the opener on top of the stack, between the
\* opener below it and that opener
CursorHolds(r) ==
    LET opener == peek(r.paren_stack, 0)
        hold_min_x == IF Len(r.paren_stack) >= 2 THEN peek(r.paren_stack, 1).x + 1 ELSE 0
    IN /\ r.cursor_line = opener.line_no
       /\ r.cursor_x # None
       /\ hold_min_x <= r.cursor_x
       /\ r.cursor_x <= opener.x

\* line begins with the graphemes of left
StartsWith(line, left) ==
    /\ Len(line) >= Len(left)
    /\ SubSeq(line, 1, Len(left)) = left

\* C30: in Indent mode with smart, a matched close bracket whose opener the
\* cursor holds is held: the paren trail is restarted just right of it with
\* no openers, and the trail observed so far, the bracket included, is kept
\* in paren_trail.clamped; in plain Indent mode and in Paren mode the bracket
\* joins the paren trail and nothing is held.  The text left of the start of
\* the paren trail is never edited afterwards, so a held bracket stays.
C30_CursorHolding ==
    [][/\ (MatchedCloseNext /\ result.mode = Indent /\ result.smart
              /\ CursorHolds(result)) =>
              /\ result'.raised = NoError
              /\ result'.paren_trail =
                     [line_no |-> result.line_no,
                      start_x |-> result.x + 1,
                      end_x |-> result.x + 1,
                      openers |-> << >>,
                      clamped |->
                          [start_x |-> result.paren_trail.start_x,
                           end_x |-> result.x + 1,
                           openers |-> Append(result.paren_trail.openers,
                                              peek(result.paren_stack, 0))]]
              /\ OutputLine(result')[result.x + 1] = NextGrapheme
              /\ Len(result'.paren_stack) = Len(result.paren_stack) - 1
       /\ (MatchedCloseNext /\ result'.raised = NoError
              /\ ~(result.mode = Indent /\ result.smart /\ CursorHolds(result))) =>
              /\ result'.paren_trail =
                     [result.paren_trail EXCEPT
                          !.end_x = result.x + 1,
                          !.openers = Append(result.paren_trail.openers,
                                             peek(result.paren_stack, 0))]
              /\ Len(result'.paren_stack) = Len(result.paren_stack) - 1
       /\ (InPass /\ result'.raised = NoError /\ result.mode = Indent
              /\ result.paren_trail.line_no # None) =>
              StartsWith(LineOf(result', result.paren_trail.line_no),
                         UpToColumn(LineOf(result, result.paren_trail.line_no),
                                    result.paren_trail.start_x))]_vars

\* smart_mode, with the cursor at the opener of (a)) / _a, has kept the close
\* bracket on the first line, which indent_mode moves to the second
C30_HeldCloseKept ==
    /\ pc = "done"
    /\ call = "smart_mode"
    /\ text = <<"(", "a", ")", ")", NEWLINE, " ", "a">>
    /\ options.cursor_line = 0
    /\ options.cursor_x = 0
    /\ options.selection_start_line = NO_LINE_NUMBER
    /\ answer.success
    /\ answer.text = <<"(", "a", ")", NEWLINE, " ", "a">>


\* the previous cursor is on the line of the opener on top of the stack,
\* between the opener below it and that opener
PrevCursorHolds(r) ==
    LET opener == peek(r.paren_stack, 0)
        hold_min_x == IF Len(r.paren_stack) >= 2 THEN peek(r.paren_stack, 1).x + 1 ELSE 0
    IN /\ r.prev_cursor_line = opener.line_no
       /\ r.prev_cursor_x # None
       /\ hold_min_x <= r.prev_cursor_x
       /\ r.prev_cursor_x <= opener.x

\* C31: in Indent mode with smart, with an empty change list and a previous
\* cursor, a matched close bracket whose opener the previous cursor held and
\* the cursor does not hold raises Restart; a raised Restart abandons the pass
\* and starts a pass over the whole input in Paren mode, whose Answer is the
\* Answer of the call; with changes or without a previous cursor a matched
\* close bracket never raises Restart
C31_RestartOnLeavingHold ==
    [][/\ (MatchedCloseNext /\ result.mode = Indent /\ result.smart) =>
              (result'.raised.name = "Restart"
                   <=> /\ options.changes = << >>
                       /\ options.prev_cursor_line # None
                       /\ PrevCursorHolds(result)
                       /\ ~CursorHolds(result))
       /\ (MatchedCloseNext /\ ~(result.mode = Indent /\ result.smart)) =>
              result'.raised.name # "Restart"
       /\ (pc = "match_process_result" /\ result.raised.name = "Restart") =>
              /\ pc' = "process_line"
              /\ passes' = passes + 1
              /\ result' = get_initial_result(text, split_lines(text), options,
                                               Paren, TRUE)
       /\ (InPass /\ passes = 2) =>
              /\ result.mode = Paren
              /\ result'.raised.name # "Restart"
       /\ (pc # "done" /\ pc' = "done" /\ passes = 2) =>
              answer' = process_text(text, split_lines(text), options, Paren, TRUE)]_vars

\* smart_mode has answered from a second pass, in Paren mode, after the
\* cursor left the opener that the previous cursor held
C31_RestartedFromHold ==
    /\ pc = "done"
    /\ call = "smart_mode"
    /\ passes = 2
    /\ options.changes = << >>
    /\ options.prev_cursor_line = 0
    /\ options.prev_cursor_x = 0
    /\ options.cursor_x # 0
    /\ Len(text) >= 2
    /\ text[1] = "("
    /\ \A i \in 1..Len(text) : text[i] \notin {NEWLINE}
    /\ result.mode = Paren


\* at the end of its line the cursor is strictly right of the start of the
\* paren trail of that line, and not inside a comment
CursorClamps(r) ==
    /\ r.cursor_line = r.line_no
    /\ r.cursor_x # None
    /\ r.paren_trail.start_x # None
    /\ r.cursor_x > r.paren_trail.start_x
    /\ ~(r.comment_x # None /\ r.cursor_x > r.comment_x)

\* C32: Indent mode, at the end of a line that holds the paren trail and ends
\* outside strings: if the cursor is strictly right of the trail's start and
\* not inside a comment, the trail is shrunk to start at the cursor
\* (max(start_x, cursor_x)); the openers of the close brackets between the
\* old start and the cursor, never more than the trail holds, move from the
\* trail's openers to clamped.openers, the others go back onto the stack;
\* otherwise the trail's start and clamped part stay.  The text left of the
\* start of a clamped trail is not edited by the corrections that follow.
C32_CursorClampsTrail ==
    [][/\ (EndsLine /\ result.mode = Indent) => result'.raised # Panic
       /\ (EndsLine /\ result.mode = Indent /\ result'.raised = NoError
              /\ result.paren_trail.line_no = result.line_no
              /\ ~is_in_stringish(result')) =>
              LET trail == result.paren_trail
                  k == Len(CloseParensIn(OutputLine(result), trail.start_x,
                                         result.cursor_x))
              IN IF CursorClamps(result)
                 THEN /\ result'.paren_trail.start_x = Max(trail.start_x, result.cursor_x)
                      /\ result'.paren_trail.start_x = result.cursor_x
                      /\ k <= Len(trail.openers)
                      /\ result'.paren_trail.clamped =
                             [start_x |-> trail.start_x, end_x |-> trail.end_x,
                              openers |-> SubSeq(trail.openers, 1, k)]
                      /\ result'.paren_trail.openers
                             \o Reverse(SubSeq(result'.paren_stack,
                                               Len(result.paren_stack) + 1,
                                               Len(result'.paren_stack)))
                             = SubSeq(trail.openers, k + 1, Len(trail.openers))
                      /\ OutputLine(result') = OutputLine(result)
                 ELSE /\ result'.paren_trail.start_x = trail.start_x
                      /\ result'.paren_trail.clamped = trail.clamped
       /\ (InPass /\ result'.raised = NoError /\ result.mode = Indent
              /\ result.paren_trail.line_no # None
              /\ result.paren_trail.clamped.start_x # None
              /\ ~EndsLine) =>
              StartsWith(LineOf(result', result.paren_trail.line_no),
                         UpToColumn(LineOf(result, result.paren_trail.line_no),
                                    result.paren_trail.start_x))]_vars

\* indent_mode, at the end of the cursor's line, has moved the opener of a
\* close bracket left of the cursor to clamped.openers
C32_OpenerClamped ==
    /\ pc \in {"process_line", "finalize_result"}
    /\ call = "indent_mode"
    /\ result.raised = NoError
    /\ result.cursor_line = result.line_no
    /\ result.paren_trail.line_no = result.line_no
    /\ result.paren_trail.start_x = result.cursor_x
    /\ Len(result.paren_trail.clamped.openers) = 1
    /\ result.paren_trail.clamped.start_x < result.cursor_x


\* the close brackets that match the openers of a list, in its order
ClosersOf(openers) == [i \in 1..Len(openers) |-> match_paren(openers[i].ch)]

\* at the end of a line that holds the paren trail, the close brackets of the
\* output line between the trail's start_x and end_x are those of the
\* trail's openers, one for one and in order
TrailMatchesOpeners ==
    (EndsLine /\ result.raised = NoError
        /\ result.paren_trail.line_no = result.line_no) =>
        CloseParensIn(OutputLine(result), result.paren_trail.start_x,
                      result.paren_trail.end_x)
            = ClosersOf(result.paren_trail.openers)

\* C33: at the end of every line on which a paren trail lies the close
\* brackets of the output line between the trail's start_x and end_x
\* correspond one to one and in order with the trail's openers
C33_TrailClosersMatchOpeners == TrailMatchesOpeners


\* the input line that process_line is working on
InputLine == result.input_lines[result.input_line_no + 1]

\* C34: with no change list, when process_line takes a grapheme of the input
\* line, x is the grapheme's input column plus indent_delta, and indent_delta
\* is the width that the edits made so far have added to the output line;
\* init_line starts every line at x = 0 with indent_delta = 0; and an opener
\* pushed for the grapheme records the indent_delta of that moment
C34_OutputColumn ==
    [][options.changes = << >> =>
          /\ (pc = "process_line" /\ pc' = "process_char") =>
                 /\ result'.x = 0
                 /\ result'.indent_delta = 0
                 /\ result'.line_no = Len(result.lines)
          /\ TakesGrapheme =>
                 /\ result.x = StartColumn(InputLine, j) + result.indent_delta
                 /\ SumWidth(OutputLine(result)) =
                        SumWidth(InputLine) + result.indent_delta
          /\ (/\ TakesGrapheme
              /\ result'.raised = NoError
              /\ HasPeek(result'.paren_stack, 0)
              /\ peek(result'.paren_stack, 0).input_line_no = result.input_line_no
              /\ peek(result'.paren_stack, 0).input_x = StartColumn(InputLine, j)) =>
                 /\ peek(result'.paren_stack, 0).indent_delta = result'.indent_delta
                 /\ peek(result'.paren_stack, 0).x + 1 = result'.x
                 /\ peek(result'.paren_stack, 0).x =
                        peek(result'.paren_stack, 0).input_x + result'.indent_delta]_vars

\* a grapheme is about to be taken on a line whose edits have moved the
\* columns, right after an opener was pushed with that indent_delta
C34_OpenerPushedAfterEdit ==
    /\ TakesGrapheme
    /\ options.changes = << >>
    /\ result.indent_delta # 0
    /\ HasPeek(result.paren_stack, 0)
    /\ peek(result.paren_stack, 0).line_no = result.line_no
    /\ peek(result.paren_stack, 0).indent_delta = result.indent_delta
    /\ peek(result.paren_stack, 0).x + 1 = result.x


\* C35: a line comment ends with its line: when process_line has started a
\* line and no grapheme of it is taken yet, the context is not Comment
C35_CommentEndsWithLine ==
    (pc = "process_char" /\ j = 1 /\ result.raised = NoError) =>
        result.context.tag # "Comment"


\* C36: the reader-prefix context lasts for one processed element: when
\* process_line takes a grapheme other than a new `#`, or ends the line, in
\* LispReaderSyntax context, the context is no longer LispReaderSyntax
\* afterwards
C36_ReaderPrefixOneElement ==
    [][(/\ (TakesGrapheme /\ NextGrapheme # NUMBER_SIGN) \/ EndsLine
        /\ result.context.tag = "LispReaderSyntax"
        /\ result'.raised = NoError) =>
           result'.context.tag # "LispReaderSyntax"]_vars


\* inside a Guile block comment
InGuileBlockComment(r) ==
    r.context.tag \in {"GuileBlockComment", "GuileBlockCommentPost"}

\* the grapheme that process_line takes next and the one before it on the
\* line are the adjacent pair <<first, second>>; the grapheme before the
\* pair, if any, is not a backslash and does not make a delimiter with the
\* pair's first grapheme (it may be another `first')
TakesPair(first, second) ==
    /\ TakesGrapheme
    /\ ~is_escaping(result)
    /\ j >= 2
    /\ NextGrapheme = second
    /\ InputLine[j - 1] = first
    /\ j >= 3 => InputLine[j - 2] \notin {second, BACKSLASH}

\* C37: inside a Lisp block comment every adjacent pair `|#' lowers the depth
\* by one, back to Code from depth 1, and every adjacent pair `#|' raises it
\* by one; inside a Guile block comment every adjacent pair `!#' gives the
\* context back to Code, whatever grapheme precedes the pair; and the first
\* grapheme of a line completes no delimiter
C37_DelimitersAnywhere ==
    [][(TakesGrapheme /\ result'.raised = NoError) =>
          /\ (InBlockComment(result) /\ TakesPair(VERTICAL_LINE, NUMBER_SIGN)) =>
                 IF result.context.depth = 1
                 THEN result'.context = Code
                 ELSE /\ InBlockComment(result')
                      /\ result'.context.depth = result.context.depth - 1
          /\ (InBlockComment(result) /\ TakesPair(NUMBER_SIGN, VERTICAL_LINE)) =>
                 /\ InBlockComment(result')
                 /\ result'.context.depth = result.context.depth + 1
          /\ (InGuileBlockComment(result) /\ TakesPair(BANG, NUMBER_SIGN)) =>
                 result'.context = Code
          /\ (InBlockComment(result) /\ j = 1) =>
                 /\ InBlockComment(result')
                 /\ result'.context.depth = result.context.depth
          /\ (InGuileBlockComment(result) /\ j = 1) =>
                 InGuileBlockComment(result')]_vars


\* C38: no column becomes negative: taking the grapheme at the indentation
\* point of a line never ends in the panic of add_indent, whose new
\* indentation orig_indent + delta stays at 0 or more, and a cursor that the
\* call was given stays at column 0 or more when an edit shifts it
C38_ColumnsNonNegative ==
    [][/\ (TakesGrapheme /\ result.tracking_indent) => result'.raised # Panic
       /\ (InPass /\ result.cursor_x # NO_COLUMN) => result'.cursor_x >= 0]_vars


\* the Options of the call without its change list and previous cursor
WithoutEdit ==
    [options EXCEPT !.changes = << >>,
                    !.prev_cursor_x = None,
                    !.prev_cursor_line = None]

\* C39: the answer of indent_mode does not depend on the change list or on
\* the previous cursor: it is the answer to the same text and cursor with no
\* change list and no previous cursor, in its text, success flag, error and
\* cursor (and its tab stops and paren trails), and the call ends without an
\* answer only when that call does
C39_IndentModeIgnoresEdit ==
    /\ (pc = "done" /\ call = "indent_mode") =>
           answer = process_text(text, split_lines(text), WithoutEdit, Indent, FALSE)
    /\ (pc = "panicked" /\ call = "indent_mode") =>
           process_text_result(text, split_lines(text), WithoutEdit, Indent, FALSE).raised
               = Panic

\* indent_mode has answered a call that came with a change list, a cursor and
\* a previous cursor, on a text whose change smart_mode takes into account
C39_EditIgnored ==
    /\ pc = "done"
    /\ call = "indent_mode"
    /\ options.changes # << >>
    /\ options.prev_cursor_line # None
    /\ options.cursor_line # None
    /\ answer.success
    /\ process_text(text, split_lines(text), options, Indent, TRUE)
           # process_text(text, split_lines(text), WithoutEdit, Indent, TRUE)


\* C40: the position that an UnclosedQuote error reports is the input
\* position of the delimiter that opened the construct left open: when a
\* grapheme opens a string, a long string or a block comment, the position
\* kept for UnclosedQuote is that of the delimiter's first grapheme (the
\* quote, the backtick, or the `#' before the `|' or `!'); it is kept while
\* the construct stays open; and finalize_result reports it
C40_UnclosedQuotePosition ==
    [][/\ (/\ TakesGrapheme
           /\ ~is_in_stringish(result)
           /\ is_in_stringish(result')
           /\ result'.raised = NoError) =>
              /\ result'.error_pos_cache["UnclosedQuote"].input_line_no =
                     result.input_line_no
              /\ result'.error_pos_cache["UnclosedQuote"].input_x =
                     StartColumn(InputLine,
                                 IF result'.context.tag \in {"String", "JanetLongStringPre"}
                                 THEN j ELSE j - 1)
       /\ (/\ InPass
           /\ is_in_stringish(result)
           /\ is_in_stringish(result')
           /\ result'.raised = NoError) =>
              result'.error_pos_cache["UnclosedQuote"] =
                  result.error_pos_cache["UnclosedQuote"]
       /\ (/\ pc = "finalize_result"
           /\ result'.raised.name = "UnclosedQuote") =>
              /\ result'.raised.line_no =
                     result.error_pos_cache["UnclosedQuote"].input_line_no
              /\ result'.raised.x = result.error_pos_cache["UnclosedQuote"].input_x
              /\ answer' = answer]_vars

=============================================================================
